---- MODULE Spec2Model ----
(***************************************************************************)
(* A model of the statics core of millet: the Syms store (generative type  *)
(* names and exceptions), the minimal basis, the Subst map of              *)
(* meta-variables and unification.                                         *)
(***************************************************************************)
EXTENDS Integers, Sequences, FiniteSets, TLC

VARIABLES
  syms,       \* Syms.syms: Vec<SymInfo>, indexed by Sym::idx
  exns,       \* Syms.exns: Vec<ExnInfo>
  overloads,  \* Syms.overloads: Overloads, one Vec<Sym> per basic
  handles,    \* every StartedSym handed out so far: its sym and what became of it
  panicked,   \* "no", or the failure that ended the run
  marks,      \* the SymsMarkers taken so far, each with the syms started before it
  mpc,        \* position inside minimal(); MDone once it has returned
  mode,       \* "minimal": the Syms built by minimal(); "default": a bare Syms::default()
  exnRets,    \* the Exns returned by insert_exn so far, in order
  bs,         \* the basis: ty_env and val_env of Bs.env
  entries,    \* Subst.entries: MetaTyVar -> SubstEntry (Absent when no entry)
  mv_info,    \* Subst.mv_info: MetaTyVar -> TyVarKind (NoKind when no entry)
  ucount,     \* the number of unify calls made on this Subst
  ua,         \* unification: the first type given to unify
  ub,         \* unification: the second type given to unify
  ures,       \* unification: "idle", "ok" or "err"
  ova,        \* overloads: the receiver of Overload::unify
  ovb,        \* overloads: the argument of Overload::unify
  ovres,      \* overloads: NotCalled, or the Option<Overload> unify returned
  ckSymTys,   \* enrich: the SymTys passed to ck
  ckGot,      \* enrich: the Env got
  ckWant,     \* enrich: the Env want
  ckRes,      \* enrich: NotCalled, or the Result ck returned
  apSelf,     \* append: the Bs that append is called on
  apOther,    \* append: the Bs that is appended next
  apCount,    \* append: the number of bindings made so far
  apBefore,   \* append: self as it was when the append that has just returned was called
  apArg,      \* append: the other that it was called with
  boSelf,     \* basis operations: the Bs that add or disallow_val is called on
  boOther,    \* basis operations: the Bs that add reads
  boArgs,     \* basis operations: the other arguments of the call that has just returned
  boRet,      \* basis operations: NotCalled, or what the call returned
  boBefore,   \* basis operations: self as it was when that call was made
  has_diagnostics,\* language server: State.has_diagnostics, the URLs recorded as having diagnostics
  root_input, \* language server: Root.input
  req_queue,  \* language server: SPState.req_queue (incoming ids, outgoing ids with their data, next outgoing id)
  sent,       \* language server: the messages the call that has just returned put on the sender, in order
  lastDiag,   \* language server: per URL, whether the last PublishDiagnostics sent for it was empty or not
  srvCall,    \* language server: NotCalled, or the call that has just returned with what it was given
  tsBuilt,    \* type schemes: NotCalled, or the scheme just built for a type constructor, with who built it
  mvGen,      \* meta variables: MetaTyVarGen, the next Uniq
  mvMinted,   \* meta variables: every MetaTyVar the generator has yielded
  mvRet,      \* meta variables: NotCalled, or what the last gen or gen_from_ty_vars was given and yielded
  pgRet,      \* meta variables: NotCalled, or what the last prepare_generalize was given and returned
  getRet,     \* Syms::get: NotCalled, or the Sym the last get was given, the store it read and what it returned
  goLineN,    \* expectation comments: line_n given to get_one
  goLineS,    \* expectation comments: line_s given to get_one, as its characters
  goChecks,   \* expectation comments: whether the build checks integer overflow
  goRet       \* expectation comments: NotCalled, or how get_one ended

symsVars == <<syms, exns, overloads, handles, panicked, marks, mpc, mode, exnRets, bs>>
substVars == <<entries, mv_info, ucount, ua, ub, ures>>
overloadVars == <<ova, ovb, ovres>>
enrichVars == <<ckSymTys, ckGot, ckWant, ckRes>>
appendVars == <<apSelf, apOther, apCount, apBefore, apArg>>
bsOpVars == <<boSelf, boOther, boArgs, boRet, boBefore>>
srvVars == <<has_diagnostics, root_input, req_queue, sent, lastDiag, srvCall>>
tsVars == <<tsBuilt, mvGen, mvMinted, mvRet, pgRet>>
getVars == <<getRet>>
expVars == <<goLineN, goLineS, goChecks, goRet>>
laterVars == <<bsOpVars, srvVars, tsVars, getVars, expVars>>
earlierVars == <<symsVars, substVars, overloadVars, enrichVars, appendVars>>
notBsOpVars == <<earlierVars, srvVars, tsVars, getVars, expVars>>
notSrvVars == <<earlierVars, bsOpVars, tsVars, getVars, expVars>>
notTsVars == <<earlierVars, bsOpVars, srvVars, getVars, expVars>>
notGetVars == <<earlierVars, bsOpVars, srvVars, tsVars, expVars>>
notExpVars == <<earlierVars, bsOpVars, srvVars, tsVars, getVars>>
notSymsVars == <<entries, mv_info, ucount, ua, ub, ures, overloadVars, enrichVars, appendVars, laterVars>>
notSubstVars == <<symsVars, overloadVars, enrichVars, appendVars, laterVars>>
notOverloadVars == <<symsVars, substVars, enrichVars, appendVars, laterVars>>
\* ck is given the caller's Subst, entries and mv_info, to leave alone
notEnrichVars == <<symsVars, ucount, ua, ub, ures, overloadVars, appendVars, laterVars>>
notAppendVars == <<symsVars, substVars, overloadVars, enrichVars, laterVars>>
vars == <<symsVars, substVars, overloadVars, enrichVars, appendVars, laterVars>>

-----------------------------------------------------------------------------
(* Bounds of the model. *)

MaxStarts == 2     \* Syms::start calls made by elaboration, after set-up
MaxExns == 2       \* Syms::insert_exn calls
MaxMarks == 1      \* SymsMarkers kept
MaxOvPush == 1     \* overload registrations made after set-up
MaxCalls == 5      \* start, insert_exn, mark and registration calls altogether
NumMv == 2         \* meta type variables: MetaTyVar 0 .. NumMv - 1
MaxUnify == 1      \* unify calls made on one Subst

-----------------------------------------------------------------------------
(* Types. *)

TyNone == [tag |-> "None"]
BoundVar(n) == [tag |-> "BoundVar", n |-> n]
MetaVar(mv) == [tag |-> "MetaVar", mv |-> mv]
FixedVar(fv) == [tag |-> "FixedVar", fv |-> fv]
Con(args, sym) == [tag |-> "Con", args |-> args, sym |-> sym]
Fn(param, res) == [tag |-> "Fn", param |-> param, res |-> res]
Record(rows) == [tag |-> "Record", rows |-> rows]

TyZero(sym) == Con(<<>>, sym)
TyFun(param, res) == Fn(param, res)

\* mk_special_syms: the reserved indices
SymEXN == 0
SymINT == 1
SymWORD == 2
SymREAL == 3
SymCHAR == 4
SymSTRING == 5
SymBOOL == 6
SymLIST == 7
SymREF == 8

NUM_WEIRD == 1

\* Sym::primitive, as the primitive's name
Primitive(sym) ==
  CASE sym = SymEXN -> "exn"
    [] sym = SymINT -> "int"
    [] sym = SymWORD -> "word"
    [] sym = SymREAL -> "real"
    [] sym = SymCHAR -> "char"
    [] sym = SymSTRING -> "string"
    [] sym = SymBOOL -> "bool"
    [] sym = SymLIST -> "list"
    [] sym = SymREF -> "ref"
    [] OTHER -> "none"

\* Sym::idx: never called on a weird sym
Idx(sym) == sym - NUM_WEIRD

GeneratedAfterStrict(sym, marker) == sym /= SymEXN /\ Idx(sym) > marker

\* Sym::generated_after
GeneratedAfter(sym, marker) == sym /= SymEXN /\ Idx(sym) >= marker

EmptyMap == <<>>

\* TyScheme::zero
TySchemeZero(ty) == [bound_vars |-> <<>>, ty |-> ty]

\* ty_scheme_one of basis.rs: one bound variable of kind k, body f(BoundVar(0))
TySchemeOneOf(k, body) == [bound_vars |-> <<k>>, ty |-> body]

\* TyScheme::n_ary
TySchemeNAry(kinds, sym) ==
  [bound_vars |-> kinds,
   ty |-> Con([i \in 1..Len(kinds) |-> BoundVar(i - 1)], sym)]

TyInfoOf(scheme, ve, def) ==
  [ty_scheme |-> scheme, val_env |-> ve, def |-> def, disallow |-> "None"]

ValInfoOf(scheme, status, def) ==
  [ty_scheme |-> scheme, id_status |-> status, defs |-> {def}, disallow |-> "None"]

\* the TyInfo that Syms::start stores
PlaceholderTyInfo == TyInfoOf(TySchemeZero(TyNone), EmptyMap, "None")

Equalities == {"Always", "Sometimes", "Never"}

Basics == {"Int", "Real", "Word", "String", "Char"}

Paths == {"t"}

NoneV == [some |-> FALSE]
Some(x) == [some |-> TRUE, val |-> x]

SymInfoOf(path, ty_info, equality) ==
  [path |-> path, ty_info |-> ty_info, equality |-> equality]

-----------------------------------------------------------------------------
(* Syms: sml-statics/src/types.rs. A Vec v is a sequence; v[i] of the code  *)
(* is VecAt(v, i).                                                          *)

VecAt(v, i) == v[i + 1]

SymsStartLenBefore(s, path) ==
  [syms |-> Append(s, SymInfoOf(path, PlaceholderTyInfo, "Sometimes")),
   sym |-> Len(s)]

\* Syms::start: pushes the placeholder, returns Sym(len after the push)
SymsStart(s, path) ==
  [syms |-> Append(s, SymInfoOf(path, PlaceholderTyInfo, "Sometimes")),
   sym |-> Len(Append(s, SymInfoOf(path, PlaceholderTyInfo, "Sometimes")))]

SymsFinishKeepsEquality(s, sym, ty_info, equality) ==
  [s EXCEPT ![Idx(sym) + 1].ty_info = ty_info]

\* Syms::finish: the two assignments through &mut self.syms[started.sym.idx()]
SymsFinish(s, sym, ty_info, equality) ==
  [s EXCEPT ![Idx(sym) + 1].ty_info = ty_info,
            ![Idx(sym) + 1].equality = equality]

SymsGetNoIdx(s, sym) ==
  IF sym = SymEXN THEN NoneV
  ELSE IF sym < Len(s) THEN Some(VecAt(s, sym)) ELSE NoneV

\* Syms::get: None for Sym::EXN, else Vec::get at Sym::idx
SymsGet(s, sym) ==
  IF sym = SymEXN THEN NoneV
  ELSE IF Idx(sym) < Len(s) THEN Some(VecAt(s, Idx(sym))) ELSE NoneV

SymsInsertExnNoPush(e, path, param) ==
  [exns |-> e, ret |-> Len(e)]

\* Syms::insert_exn: returns Exn(len before the push)
SymsInsertExn(e, path, param) ==
  [exns |-> Append(e, [path |-> path, param |-> param]), ret |-> Len(e)]

\* Syms::mark
SymsMark(s) == Len(s)

BombOnDropNever(defused) == "no"

\* DropBomb: dropping a bomb that was not defused panics
BombOnDrop(defused) == IF defused THEN "no" ELSE "bomb"

-----------------------------------------------------------------------------
(* The minimal basis: sml-statics/src/basis.rs. *)

KRegular == [k |-> "Regular"]
KEquality == [k |-> "Equality"]
KOverloaded(ov) == [k |-> "Overloaded", ov |-> ov]

\* pair: the record type {1: t1, 2: t2}
Pair(t1, t2) == Record(<<t1, t2>>)

\* dup
Dup(ty) == Pair(ty, ty)

TyUnit == Record(<<>>)

\* Ty::EXN, what tys.exn() stands for
TyEXN == TyZero(SymEXN)

\* datatype_ve: every constructor gets IdStatus::Con
DatatypeVe(ctors) ==
  [name \in DOMAIN ctors |-> ValInfoOf(ctors[name], "Con", name)]

\* basic_datatype
BasicDatatype(sym, ctors) ==
  TyInfoOf(TySchemeZero(Con(<<>>, sym)),
           DatatypeVe([name \in ctors |-> TySchemeZero(Con(<<>>, sym))]),
           Primitive(sym))

\* list_info of minimal()
ListInfo ==
  LET list(a) == Con(<<a>>, SymLIST)
      alpha_list == TySchemeOneOf(KRegular, list(BoundVar(0)))
      cons == TySchemeOneOf(KRegular,
                TyFun(Pair(BoundVar(0), list(BoundVar(0))), list(BoundVar(0))))
  IN TyInfoOf(alpha_list,
              DatatypeVe([name \in {"nil", "::"} |->
                            IF name = "nil" THEN alpha_list ELSE cons]),
              "list")

\* ref_info of minimal()
RefInfo ==
  LET ref_(a) == Con(<<a>>, SymREF)
      con == TySchemeOneOf(KRegular, TyFun(BoundVar(0), ref_(BoundVar(0))))
  IN TyInfoOf(TySchemeOneOf(KRegular, ref_(BoundVar(0))),
              DatatypeVe([name \in {"ref"} |-> con]),
              "ref")

MinimalOrderRefFirst ==
  <<SymINT, SymWORD, SymREAL, SymCHAR, SymSTRING, SymBOOL, SymREF, SymLIST>>

\* the insert_special calls of minimal(), in program order
MinimalOrder ==
  <<SymINT, SymWORD, SymREAL, SymCHAR, SymSTRING, SymBOOL, SymLIST, SymREF>>

\* the TyInfo minimal() passes to insert_special for sym
MinimalInfo(sym) ==
  CASE sym = SymBOOL -> BasicDatatype(SymBOOL, {"true", "false"})
    [] sym = SymLIST -> ListInfo
    [] sym = SymREF -> RefInfo
    [] OTHER -> BasicDatatype(sym, {})

\* insert_special: the equality verdict chosen for sym
SpecialEquality(sym) ==
  IF sym = SymREF THEN "Always"
  ELSE IF sym = SymREAL THEN "Never"
  ELSE "Sometimes"

\* insert_special: assert_ne, start, assert_eq, finish
InsertSpecial(s, sym, ty_info) ==
  IF sym = SymEXN THEN [syms |-> s, sym |-> SymEXN, panic |-> "assert_ne"]
  ELSE LET started == SymsStart(s, Primitive(sym))
       IN IF sym /= started.sym
          THEN [syms |-> started.syms, sym |-> started.sym, panic |-> "assert_eq"]
          ELSE [syms |-> SymsFinish(started.syms, started.sym, ty_info,
                                    SpecialEquality(sym)),
                sym |-> started.sym, panic |-> "no"]

\* ov_fn
OvFn(ov, param, res) == TySchemeOneOf(KOverloaded(ov), TyFun(param, res))

\* the fns of minimal(): the built-in values and their type schemes
MinimalFns ==
  LET a == BoundVar(0)
      num_pair_to_num == OvFn("Num", Dup(a), a)
      real_pair_to_real == OvFn("Real", Dup(a), a)
      numtxt_pair_to_bool == OvFn("NumTxt", Dup(a), TyZero(SymBOOL))
      realint_to_realint == OvFn("RealInt", a, a)
      wordint_pair_to_wordint == OvFn("WordInt", Dup(a), a)
      equality_pair_to_bool ==
        TySchemeOneOf(KEquality, TyFun(Dup(a), TyZero(SymBOOL)))
  IN [name \in {"*", "+", "-", "/", "<", "<=", ">", ">=", "~", "abs", "div", "mod",
                "=", "<>", "use"} |->
       CASE name \in {"*", "+", "-"} -> num_pair_to_num
         [] name = "/" -> real_pair_to_real
         [] name \in {"<", "<=", ">", ">="} -> numtxt_pair_to_bool
         [] name \in {"~", "abs"} -> realint_to_realint
         [] name \in {"div", "mod"} -> wordint_pair_to_wordint
         [] name \in {"=", "<>"} -> equality_pair_to_bool
         [] OTHER -> TySchemeZero(TyFun(TyZero(SymSTRING), TyUnit))]

\* the aliases of minimal(): unit and exn
MinimalAliases ==
  [name \in {"unit", "exn"} |->
     TyInfoOf(TySchemeZero(IF name = "unit" THEN TyUnit ELSE TyEXN), EmptyMap, name)]

\* ty_env of minimal(): one entry per stored sym, then the aliases
MinimalTyEnv(s) ==
  [name \in {s[i].path : i \in 1..Len(s)} \cup DOMAIN MinimalAliases |->
     IF name \in DOMAIN MinimalAliases THEN MinimalAliases[name]
     ELSE LET i == CHOOSE i \in 1..Len(s) :
                     /\ s[i].path = name
                     /\ \A j \in 1..Len(s) : s[j].path = name => j <= i
          IN s[i].ty_info]

\* val_env of minimal(): the constructors of every type, then the fns
MinimalValEnv(te) ==
  LET ctors == UNION {DOMAIN te[t].val_env : t \in DOMAIN te}
  IN [name \in ctors \cup DOMAIN MinimalFns |->
       IF name \in DOMAIN MinimalFns
       THEN ValInfoOf(MinimalFns[name], "Val", name)
       ELSE LET t == CHOOSE t \in DOMAIN te : name \in DOMAIN te[t].val_env
            IN te[t].val_env[name]]

\* Bs of minimal(): only env.ty_env and env.val_env are non-empty
MinimalBs(s) ==
  [ty_env |-> MinimalTyEnv(s), val_env |-> MinimalValEnv(MinimalTyEnv(s))]

EmptyBs == [ty_env |-> EmptyMap, val_env |-> EmptyMap]

-----------------------------------------------------------------------------
(* Overloads: types/overload.rs. An Overload is Basic(b) or Composite(c).   *)

Composites == {"WordInt", "RealInt", "Num", "NumTxt", "NumTxtEq"}

OvBasic(b) == [tag |-> "Basic", b |-> b]
OvComposite(c) == [tag |-> "Composite", c |-> c]

\* every Overload
Overloads == {OvBasic(b) : b \in Basics} \cup {OvComposite(c) : c \in Composites}

CompositeAsBasicsEqWithReal(c) ==
  CASE c = "WordInt" -> <<"Word", "Int">>
    [] c = "RealInt" -> <<"Real", "Int">>
    [] c = "Num" -> <<"Word", "Real", "Int">>
    [] c = "NumTxt" -> <<"Word", "Real", "Int", "String", "Char">>
    [] c = "NumTxtEq" -> <<"Word", "Real", "Int", "String", "Char">>

\* Composite::as_basics
CompositeAsBasics(c) ==
  CASE c = "WordInt" -> <<"Word", "Int">>
    [] c = "RealInt" -> <<"Real", "Int">>
    [] c = "Num" -> <<"Word", "Real", "Int">>
    [] c = "NumTxt" -> <<"Word", "Real", "Int", "String", "Char">>
    [] c = "NumTxtEq" -> <<"Word", "Int", "String", "Char">>

CompositeUnifyEqNumIsNum(self, other) ==
  IF \/ self = "WordInt" /\ other \in {"WordInt", "Num", "NumTxt"}
     \/ self \in {"Num", "NumTxt"} /\ other = "WordInt"
  THEN OvComposite("WordInt")
  ELSE IF \/ self \in {"WordInt", "NumTxtEq"} /\ other = "RealInt"
          \/ self = "RealInt" /\ other \in {"WordInt", "NumTxtEq"}
  THEN OvBasic("Int")
  ELSE IF \/ self = "RealInt" /\ other \in {"RealInt", "Num", "NumTxt"}
          \/ self \in {"Num", "NumTxt"} /\ other = "RealInt"
  THEN OvComposite("RealInt")
  ELSE IF \/ self = "Num" /\ other \in {"Num", "NumTxt"}
          \/ self = "NumTxt" /\ other = "Num"
  THEN OvComposite("Num")
  ELSE IF self = "NumTxt" /\ other = "NumTxt"
  THEN OvComposite("NumTxt")
  ELSE IF \/ self = "NumTxtEq" /\ other \in {"NumTxtEq", "NumTxt"}
          \/ self = "NumTxt" /\ other = "NumTxtEq"
  THEN OvComposite("NumTxtEq")
  ELSE IF self = "Num" \/ other = "Num"
  THEN OvComposite("Num")
  ELSE OvComposite("WordInt")

\* Composite::unify: the arms of the match, in their order
CompositeUnify(self, other) ==
  IF \/ self = "WordInt" /\ other \in {"WordInt", "Num", "NumTxt"}
     \/ self \in {"Num", "NumTxt"} /\ other = "WordInt"
  THEN OvComposite("WordInt")
  ELSE IF \/ self \in {"WordInt", "NumTxtEq"} /\ other = "RealInt"
          \/ self = "RealInt" /\ other \in {"WordInt", "NumTxtEq"}
  THEN OvBasic("Int")
  ELSE IF \/ self = "RealInt" /\ other \in {"RealInt", "Num", "NumTxt"}
          \/ self \in {"Num", "NumTxt"} /\ other = "RealInt"
  THEN OvComposite("RealInt")
  ELSE IF \/ self = "Num" /\ other \in {"Num", "NumTxt"}
          \/ self = "NumTxt" /\ other = "Num"
  THEN OvComposite("Num")
  ELSE IF self = "NumTxt" /\ other = "NumTxt"
  THEN OvComposite("NumTxt")
  ELSE IF \/ self = "NumTxtEq" /\ other \in {"NumTxtEq", "NumTxt"}
          \/ self = "NumTxt" /\ other = "NumTxtEq"
  THEN OvComposite("NumTxtEq")
  ELSE OvComposite("WordInt")

\* Overload::as_basics
OverloadAsBasics(ov) ==
  IF ov.tag = "Basic" THEN <<ov.b>> ELSE CompositeAsBasics(ov.c)

\* the first element of the slice equal to b: iter().find(..).copied()
FindBasic(basics, b) ==
  IF \E i \in DOMAIN basics : basics[i] = b
  THEN Some(basics[CHOOSE i \in DOMAIN basics :
                     /\ basics[i] = b
                     /\ \A j \in DOMAIN basics : basics[j] = b => i <= j])
  ELSE NoneV

\* Overload::unify: None iff the overloads could not be unified
OverloadUnify(self, other) ==
  IF self.tag = "Basic" /\ other.tag = "Basic"
  THEN IF self.b = other.b THEN Some(OvBasic(self.b)) ELSE NoneV
  ELSE IF self.tag = "Basic" /\ other.tag = "Composite"
  THEN LET f == FindBasic(CompositeAsBasics(other.c), self.b)
       IN IF f.some THEN Some(OvBasic(f.val)) ELSE NoneV
  ELSE IF self.tag = "Composite" /\ other.tag = "Basic"
  THEN LET f == FindBasic(CompositeAsBasics(self.c), other.b)
       IN IF f.some THEN Some(OvBasic(f.val)) ELSE NoneV
  ELSE Some(CompositeUnify(self.c, other.c))

\* Overload::unify has not been called
NotCalled == [called |-> FALSE]
Returned(x) == [called |-> TRUE, ret |-> x]

\* no Overload::unify call is being looked at
OverloadIdle ==
  /\ ova = OvBasic("Int")
  /\ ovb = OvBasic("Int")
  /\ ovres = NotCalled

\* Env::default()
EnvOf(se, te, ve) == [str_env |-> se, ty_env |-> te, val_env |-> ve]
EmptyEnv == EnvOf(EmptyMap, EmptyMap, EmptyMap)

\* no ck call is being looked at
EnrichIdle ==
  /\ ckSymTys = EmptyMap
  /\ ckGot = EmptyEnv
  /\ ckWant = EmptyEnv
  /\ ckRes = NotCalled

\* Bs::default()
BsOf(env, sig_env, fun_env) == [env |-> env, sig_env |-> sig_env, fun_env |-> fun_env]
DefaultBs == BsOf(EmptyEnv, EmptyMap, EmptyMap)

\* no append is being looked at
AppendIdle ==
  /\ apSelf = DefaultBs
  /\ apOther = DefaultBs
  /\ apCount = 0
  /\ apBefore = DefaultBs
  /\ apArg = DefaultBs

BsOpIdle ==
  /\ boSelf = DefaultBs
  /\ boOther = DefaultBs
  /\ boArgs = <<>>
  /\ boRet = NotCalled
  /\ boBefore = DefaultBs

\* none of the later components is being looked at
SrvIdle ==
  /\ has_diagnostics = {}
  /\ root_input = NoneV
  /\ req_queue = [incoming |-> {}, outgoing |-> {}, next_id |-> 0]
  /\ sent = <<>>
  /\ lastDiag = <<>>
  /\ srvCall = NotCalled

TsIdle ==
  /\ tsBuilt = NotCalled
  /\ mvGen = 0
  /\ mvMinted = {}
  /\ mvRet = NotCalled
  /\ pgRet = NotCalled

GetIdle ==
  /\ getRet = NotCalled

ExpIdle ==
  /\ goLineN = 0
  /\ goLineS = <<>>
  /\ goChecks = FALSE
  /\ goRet = NotCalled

LaterIdle ==
  /\ BsOpIdle
  /\ SrvIdle
  /\ TsIdle
  /\ GetIdle
  /\ ExpIdle

-----------------------------------------------------------------------------
(* The Syms state machine: minimal() runs first on a Syms::default(), then  *)
(* elaboration calls start, finish, insert_exn, mark and overloads_mut.     *)

MDone == 10

\* a Subst::default(): no entries
NoEntries == <<>>

\* Overloads::default
NoOverloads == [b \in Basics |-> <<>>]

\* the overloads after the five pushes of minimal()
MinimalOverloadsOf(ov) ==
  [b \in Basics |->
     Append(ov[b],
       CASE b = "Int" -> SymINT
         [] b = "Word" -> SymWORD
         [] b = "Real" -> SymREAL
         [] b = "Char" -> SymCHAR
         [] OTHER -> SymSTRING)]

RECURSIVE MinimalSymsUpTo(_)
\* the store after the first k insert_special calls of minimal()
MinimalSymsUpTo(k) ==
  IF k = 0 THEN <<>>
  ELSE InsertSpecial(MinimalSymsUpTo(k - 1), MinimalOrder[k],
                     MinimalInfo(MinimalOrder[k])).syms

\* the number of syms minimal() leaves in the store
BaseLen == IF mode = "minimal" THEN Len(MinimalOrder) ELSE 0

HandleIds == 1..Len(handles)

StartedSyms == {handles[h].sym : h \in HandleIds}

\* the Syms started by elaboration, after set-up
ElabSyms == {handles[h].sym : h \in {i \in HandleIds : i > BaseLen}}

\* the arguments a datatype declaration passes to finish for sym: a nullary
\* datatype with one constant constructor, a unary one with one constructor
\* carrying the parameter
FinishArgs(sym) ==
  LET nullary == TyInfoOf(TySchemeNAry(<<>>, sym),
        DatatypeVe([name \in {"A"} |-> TySchemeZero(Con(<<>>, sym))]), "dt")
      unary == TyInfoOf(TySchemeNAry(<<KRegular>>, sym),
        DatatypeVe([name \in {"B"} |->
          TySchemeOneOf(KRegular, TyFun(BoundVar(0), Con(<<BoundVar(0)>>, sym)))]),
        "dt")
  IN {[ty_info |-> nullary, equality |-> "Always"],
      [ty_info |-> unary, equality |-> "Sometimes"],
      [ty_info |-> unary, equality |-> "Never"]}

Handle(sym, state, finishes) == [sym |-> sym, state |-> state, finishes |-> finishes]

\* minimal() is about to run on a Syms::default()
BasisInit ==
  /\ mode = "minimal"
  /\ syms = <<>>
  /\ exns = <<>>
  /\ overloads = NoOverloads
  /\ handles = <<>>
  /\ panicked = "no"
  /\ marks = {}
  /\ mpc = 0
  /\ exnRets = <<>>
  /\ bs = EmptyBs
  /\ entries = NoEntries
  /\ mv_info = NoEntries
  /\ ucount = 0
  /\ ua = TyNone
  /\ ub = TyNone
  /\ ures = "idle"
  /\ OverloadIdle
  /\ EnrichIdle
  /\ AppendIdle
  /\ LaterIdle

\* elaboration is about to run, on the Syms of minimal() or on a Syms::default()
SymsInit ==
  /\ mode \in {"minimal", "default"}
  /\ syms = IF mode = "minimal" THEN MinimalSymsUpTo(Len(MinimalOrder)) ELSE <<>>
  /\ exns = <<>>
  /\ overloads = IF mode = "minimal" THEN MinimalOverloadsOf(NoOverloads)
                 ELSE NoOverloads
  /\ handles = IF mode = "minimal"
               THEN [k \in 1..Len(MinimalOrder) |-> Handle(MinimalOrder[k], "finished", 1)]
               ELSE <<>>
  /\ panicked = "no"
  /\ marks = {}
  /\ mpc = MDone
  /\ exnRets = <<>>
  /\ bs = IF mode = "minimal" THEN MinimalBs(MinimalSymsUpTo(Len(MinimalOrder)))
          ELSE EmptyBs
  /\ entries = NoEntries
  /\ mv_info = NoEntries
  /\ ucount = 0
  /\ ua = TyNone
  /\ ub = TyNone
  /\ ures = "idle"
  /\ OverloadIdle
  /\ EnrichIdle
  /\ AppendIdle
  /\ LaterIdle

\* minimal(): one insert_special call
MinimalInsertSpecial ==
  /\ panicked = "no"
  /\ mpc \in (0..4) \cup (6..8)
  /\ LET sym == MinimalOrder[IF mpc < 5 THEN mpc + 1 ELSE mpc]
         r == InsertSpecial(syms, sym, MinimalInfo(sym))
     IN /\ syms' = r.syms
        /\ panicked' = IF r.panic = "no" THEN BombOnDrop(TRUE) ELSE r.panic
        /\ handles' = IF r.panic = "assert_ne" THEN handles
                      ELSE Append(handles,
                             IF r.panic = "no" THEN Handle(r.sym, "finished", 1)
                             ELSE Handle(r.sym, "unwound", 0))
  /\ mpc' = mpc + 1
  /\ UNCHANGED <<exns, overloads, marks, mode, exnRets, bs>>
  /\ UNCHANGED notSymsVars

\* minimal(): the five overloads_mut() pushes
MinimalOverloads ==
  /\ panicked = "no"
  /\ mpc = 5
  /\ overloads' = MinimalOverloadsOf(overloads)
  /\ mpc' = mpc + 1
  /\ UNCHANGED <<syms, exns, handles, panicked, marks, mode, exnRets, bs>>
  /\ UNCHANGED notSymsVars

\* minimal(): the ty_env, val_env and Bs built from the store
MinimalBasis ==
  /\ panicked = "no"
  /\ mpc = 9
  /\ bs' = MinimalBs(syms)
  /\ mpc' = MDone
  /\ UNCHANGED <<syms, exns, overloads, handles, panicked, marks, mode, exnRets>>
  /\ UNCHANGED notSymsVars

Running == mpc = MDone /\ panicked = "no"

OvLen == Len(overloads["Int"]) + Len(overloads["Real"]) + Len(overloads["Word"])
           + Len(overloads["String"]) + Len(overloads["Char"])

\* overload registrations minimal() leaves in the store
BaseOvLen == IF mode = "minimal" THEN Cardinality(Basics) ELSE 0

\* the calls elaboration has made on the store so far
Calls == (Len(handles) - BaseLen) + Len(exnRets) + Cardinality(marks)
           + (OvLen - BaseOvLen)

\* elaboration makes another call on the store
MoreCalls == Running /\ Calls < MaxCalls

\* Syms::start
Start(path) ==
  /\ MoreCalls
  /\ Len(handles) < BaseLen + MaxStarts
  /\ LET r == SymsStart(syms, path)
     IN /\ syms' = r.syms
        /\ handles' = Append(handles, Handle(r.sym, "held", 0))
  /\ UNCHANGED <<exns, overloads, panicked, marks, mpc, mode, exnRets, bs>>
  /\ UNCHANGED notSymsVars

\* Syms::finish: takes the handle by value, defuses its bomb, fills the slot;
\* the handle is dropped, defused, when finish returns
Finish(h, ty_info, equality) ==
  /\ Running
  /\ handles[h].state = "held"
  /\ syms' = SymsFinish(syms, handles[h].sym, ty_info, equality)
  /\ handles' = [handles EXCEPT ![h].state = "finished",
                                ![h].finishes = handles[h].finishes + 1]
  /\ panicked' = BombOnDrop(TRUE)
  /\ UNCHANGED <<exns, overloads, marks, mpc, mode, exnRets, bs>>
  /\ UNCHANGED notSymsVars

\* a StartedSym goes out of scope without having been passed to finish: its
\* bomb goes off, and the handles still held are dropped by the unwinding
DropHandle(h) ==
  /\ Running
  /\ handles[h].state = "held"
  /\ panicked' = BombOnDrop(FALSE)
  /\ handles' = [i \in HandleIds |->
       IF i = h THEN [handles[i] EXCEPT !.state = "dropped"]
       ELSE IF handles[i].state = "held" /\ BombOnDrop(FALSE) /= "no"
            THEN [handles[i] EXCEPT !.state = "unwound"]
            ELSE handles[i]]
  /\ UNCHANGED <<syms, exns, overloads, marks, mpc, mode, exnRets, bs>>
  /\ UNCHANGED notSymsVars

\* Syms::insert_exn
InsertExn(path, param) ==
  /\ MoreCalls
  /\ Len(exnRets) < MaxExns
  /\ LET r == SymsInsertExn(exns, path, param)
     IN /\ exns' = r.exns
        /\ exnRets' = Append(exnRets, r.ret)
  /\ UNCHANGED <<syms, overloads, handles, panicked, marks, mpc, mode, bs>>
  /\ UNCHANGED notSymsVars

\* Syms::mark
Mark ==
  /\ MoreCalls
  /\ Cardinality(marks) < MaxMarks
  /\ marks' = marks \cup {[val |-> SymsMark(syms), before |-> StartedSyms]}
  /\ UNCHANGED <<syms, exns, overloads, handles, panicked, mpc, mode, exnRets, bs>>
  /\ UNCHANGED notSymsVars

OvBasics == {"Int", "String"}

\* Syms::overloads_mut()[basic].push(sym)
OverloadPush(basic, sym) ==
  /\ MoreCalls
  /\ OvLen < BaseOvLen + MaxOvPush
  /\ overloads' = [overloads EXCEPT ![basic] = Append(overloads[basic], sym)]
  /\ UNCHANGED <<syms, exns, handles, panicked, marks, mpc, mode, exnRets, bs>>
  /\ UNCHANGED notSymsVars

BindName(sym) == IF sym % 2 = 0 THEN "t" ELSE "u"

\* a datatype declaration binds its finished type constructor and its
\* constructors in the basis
BsBindTy(h) ==
  /\ Running
  /\ handles[h].state = "finished"
  /\ h > BaseLen
  /\ LET info == SymsGet(syms, handles[h].sym).val.ty_info
         name == BindName(handles[h].sym)
     IN /\ name \notin DOMAIN bs.ty_env
        /\ bs' = [ty_env |-> [n \in DOMAIN bs.ty_env \cup {name} |->
                                IF n = name THEN info ELSE bs.ty_env[n]],
                  val_env |-> [n \in DOMAIN bs.val_env \cup DOMAIN info.val_env |->
                                IF n \in DOMAIN info.val_env THEN info.val_env[n]
                                ELSE bs.val_env[n]]]
  /\ UNCHANGED <<syms, exns, overloads, handles, panicked, marks, mpc, mode, exnRets>>
  /\ UNCHANGED notSymsVars

ExnParams == {NoneV, Some(TyZero(SymINT))}

SymsNext ==
  \/ \E path \in Paths : Start(path)
  \/ \E h \in HandleIds : \E a \in FinishArgs(handles[h].sym) :
       Finish(h, a.ty_info, a.equality)
  \/ \E h \in HandleIds : DropHandle(h)
  \/ \E param \in ExnParams : InsertExn("e", param)
  \/ Mark
  \/ \E basic \in OvBasics, sym \in ElabSyms : OverloadPush(basic, sym)

SpecSyms == SymsInit /\ [][SymsNext]_vars

BasisNext ==
  \/ MinimalInsertSpecial
  \/ MinimalOverloads
  \/ MinimalBasis
  \/ \E path \in Paths : Start(path)
  \/ \E h \in HandleIds : \E a \in FinishArgs(handles[h].sym) :
       Finish(h, a.ty_info, a.equality)
  \/ \E h \in HandleIds : BsBindTy(h)
  \/ \E param \in ExnParams : InsertExn("e", param)

SpecBasis == BasisInit /\ [][BasisNext]_vars

-----------------------------------------------------------------------------
(* Properties of Syms. *)

\* the Sym the latest start returned, read in the state after it
StartRet == handles'[Len(handles')].sym

\* C1: the Sym that start returns differs from Sym::EXN and from every Sym an
\* earlier start returned, and right after start its store entry is the
\* placeholder: empty constructor val_env, equality Sometimes.
C1_StartReservesFresh ==
  [][\A path \in Paths :
       Start(path) =>
         /\ StartRet /= SymEXN
         /\ StartRet \notin StartedSyms
         /\ SymsGet(syms', StartRet).some
         /\ SymsGet(syms', StartRet).val.ty_info.val_env = EmptyMap
         /\ SymsGet(syms', StartRet).val.ty_info = PlaceholderTyInfo
         /\ SymsGet(syms', StartRet).val.equality = "Sometimes"
         /\ SymsGet(syms', StartRet).val.path = path]_vars

\* C1 witness: a second start of elaboration has just returned, after a finish
\* and an insert_exn, and its slot holds the placeholder.
C1_Witness ==
  /\ Len(handles) = BaseLen + 2
  /\ handles[Len(handles)].state = "held"
  /\ handles[Len(handles) - 1].state = "finished"
  /\ Len(exns) > 0
  /\ SymsGet(syms, handles[Len(handles)].sym) =
       Some(SymInfoOf("t", PlaceholderTyInfo, "Sometimes"))

\* C2: finish installs ty_info and equality at the slot its handle reserved
\* and changes nothing else: not the number of syms, no other entry, not the
\* exceptions, not the overload registries; whatever the order of the finishes.
C2_FinishInstallsAtSlot ==
  [][\A h \in HandleIds : \A a \in FinishArgs(handles[h].sym) :
       Finish(h, a.ty_info, a.equality) =>
         /\ SymsGet(syms', handles[h].sym) =
              Some(SymInfoOf(SymsGet(syms, handles[h].sym).val.path,
                             a.ty_info, a.equality))
         /\ Len(syms') = Len(syms)
         /\ \A sym \in 0..(Len(syms) + 1) :
              sym /= handles[h].sym => SymsGet(syms', sym) = SymsGet(syms, sym)
         /\ exns' = exns
         /\ overloads' = overloads]_vars

\* C2 witness: a later start has been finished while an earlier one is still
\* outstanding, with an exception and an overload registered.
C2_Witness ==
  \E h1 \in HandleIds, h2 \in HandleIds :
    /\ BaseLen < h1 /\ h1 < h2
    /\ handles[h1].state = "held"
    /\ handles[h2].state = "finished"
    /\ SymsGet(syms, handles[h2].sym).val.equality = "Never"
    /\ SymsGet(syms, handles[h1].sym).val.ty_info = PlaceholderTyInfo
    /\ Len(exns) > 0

\* C3: a handle discarded without finish sets off the drop bomb, a handle
\* passed to finish does not, and no handle is passed to finish twice.
C3_DropBombDetects ==
  /\ \A h \in HandleIds :
       /\ handles[h].state \in {"dropped", "unwound"} => panicked /= "no"
       /\ handles[h].state = "dropped" => panicked = "bomb"
       /\ handles[h].finishes <= 1
       /\ handles[h].state = "finished" <=> handles[h].finishes = 1
  /\ panicked = "bomb" => \E h \in HandleIds : handles[h].state = "dropped"
  /\ (\A h \in HandleIds : handles[h].state \in {"held", "finished"})
       => panicked = "no"

\* C3 witness: one handle was finished, another discarded, and the bomb went off.
C3_Witness ==
  /\ panicked = "bomb"
  /\ \E h1 \in HandleIds, h2 \in HandleIds :
       /\ h1 > BaseLen
       /\ handles[h1].state = "finished"
       /\ handles[h2].state = "dropped"

\* C4: the numbers of syms and of exns never decrease; start adds exactly one
\* sym, insert_exn adds exactly one exn and returns an Exn no earlier call
\* returned, finish and mark change neither number.
C4_MonotoneAllocation ==
  [][/\ Len(syms') >= Len(syms)
     /\ Len(exns') >= Len(exns)
     /\ (\E path \in Paths : Start(path)) =>
          Len(syms') = Len(syms) + 1 /\ Len(exns') = Len(exns)
     /\ (\E param \in ExnParams : InsertExn("e", param)) =>
          /\ Len(exns') = Len(exns) + 1
          /\ Len(syms') = Len(syms)
          /\ \A i \in 1..Len(exnRets) : exnRets[i] /= exnRets'[Len(exnRets')]
     /\ (\E h \in HandleIds : \E a \in FinishArgs(handles[h].sym) :
           Finish(h, a.ty_info, a.equality)) =>
          Len(syms') = Len(syms) /\ Len(exns') = Len(exns)
     /\ Mark => Len(syms') = Len(syms) /\ Len(exns') = Len(exns)]_vars

\* C4 witness: two exceptions and two syms were allocated, one sym finished,
\* and a marker taken.
C4_Witness ==
  /\ Len(exnRets) = 2
  /\ Len(exns) = 2
  /\ Len(syms) = BaseLen + 2
  /\ marks /= {}
  /\ \E h \in HandleIds : h > BaseLen /\ handles[h].state = "finished"

\* C5: for a marker m and a Sym s from start, s.generated_after(m) holds
\* exactly when s was started after m was taken; never for Sym::EXN.
C5_GeneratedAfterIffLater ==
  \A m \in marks :
    /\ \A s \in StartedSyms : GeneratedAfter(s, m.val) <=> s \notin m.before
    /\ ~GeneratedAfter(SymEXN, m.val)

\* C5 witness: a marker with a sym started before it and a sym started after it.
C5_Witness ==
  \E m \in marks :
    /\ \E s \in StartedSyms : s \in m.before /\ ~GeneratedAfter(s, m.val)
    /\ \E s \in StartedSyms : s \notin m.before /\ GeneratedAfter(s, m.val)

\* the number of insert_special calls minimal() has made
SpecialsDone == IF mpc < 5 THEN mpc ELSE IF mpc < 9 THEN mpc - 1 ELSE Len(MinimalOrder)

\* C6: the primitives have the indices 0..8 in the order EXN, INT, WORD, REAL,
\* CHAR, STRING, BOOL, LIST, REF, and in minimal() every insert_special gets
\* from start the very Sym it was asked to insert: neither assert fails, and
\* EXN is never inserted.
C6_SpecialSlotsInOrder ==
  /\ <<SymEXN, SymINT, SymWORD, SymREAL, SymCHAR, SymSTRING, SymBOOL, SymLIST,
       SymREF>> = [k \in 1..9 |-> k - 1]
  /\ panicked \notin {"assert_eq", "assert_ne"}
  /\ \A k \in 1..SpecialsDone :
       /\ handles[k].sym = MinimalOrder[k]
       /\ handles[k].sym /= SymEXN
       /\ handles[k].state = "finished"
       /\ SymsGet(syms, MinimalOrder[k]) =
            Some(SymInfoOf(Primitive(MinimalOrder[k]), MinimalInfo(MinimalOrder[k]),
                           SpecialEquality(MinimalOrder[k])))

\* C6 witness: minimal() has returned with all eight primitives inserted.
C6_Witness ==
  /\ mpc = MDone
  /\ Len(syms) >= Len(MinimalOrder)
  /\ SymsGet(syms, SymREF).val.path = "ref"
  /\ SymsGet(syms, SymINT).val.path = "int"

RECURSIVE SymsOf(_)
\* the Syms occurring in a type
SymsOf(ty) ==
  CASE ty.tag = "Con" ->
         {ty.sym} \cup UNION {SymsOf(ty.args[i]) : i \in DOMAIN ty.args}
    [] ty.tag = "Fn" -> SymsOf(ty.param) \cup SymsOf(ty.res)
    [] ty.tag = "Record" -> UNION {SymsOf(ty.rows[l]) : l \in DOMAIN ty.rows}
    [] OTHER -> {}

\* the Syms occurring in the type schemes of a val_env
SymsOfValEnv(ve) == UNION {SymsOf(ve[n].ty_scheme.ty) : n \in DOMAIN ve}

\* the Syms occurring in the type schemes of the type and value environments
SymsOfBs(b) ==
  UNION {SymsOf(b.ty_env[n].ty_scheme.ty) \cup SymsOfValEnv(b.ty_env[n].val_env) :
           n \in DOMAIN b.ty_env}
    \cup SymsOfValEnv(b.val_env)

\* C7 as stated: every Sym occurring in a type scheme of the basis has an
\* entry that Syms::get returns.
C7_EverySymPresent ==
  \A sym \in SymsOfBs(bs) : SymsGet(syms, sym).some

\* C7 amended: every Sym other than Sym::EXN occurring in a type scheme of the
\* basis has an entry that Syms::get returns; Sym::EXN occurs in the basis
\* (the type exn) and get returns None for it.
C7_EverySymButExnPresent ==
  /\ \A sym \in SymsOfBs(bs) \ {SymEXN} : SymsGet(syms, sym).some
  /\ mpc = MDone => SymEXN \in SymsOfBs(bs) /\ ~SymsGet(syms, SymEXN).some

\* C7 witness: the basis of minimal() extended with a datatype declared later.
C7_Witness ==
  /\ mpc = MDone
  /\ \E sym \in SymsOfBs(bs) : sym > SymREF
  /\ {SymINT, SymLIST, SymREF, SymBOOL, SymSTRING} \subseteq SymsOfBs(bs)

-----------------------------------------------------------------------------
(* Subst: sml-statics/src/types.rs. A Subst is the pair of its maps; a map  *)
(* is a function whose domain is the set of keys present.                   *)

MVs == 0..(NumMv - 1)

Solved(ty) == [tag |-> "Solved", ty |-> ty]
KindEntry(kind) == [tag |-> "Kind", kind |-> kind]

\* FxHashMap::insert: the entry for key k becomes v
Put(f, k, v) == [x \in DOMAIN f \cup {k} |-> IF x = k THEN v ELSE f[x]]

SubstOf(e, i) == [entries |-> e, mv_info |-> i]

\* Subst::default
EmptySubst == SubstOf(NoEntries, NoEntries)

\* Subst::get
SubstGet(sub, mv) ==
  IF mv \in DOMAIN sub.entries THEN Some(sub.entries[mv]) ELSE NoneV

SubstInsertKeepsOld(sub, mv, entry) ==
  [sub |-> SubstOf(IF mv \in DOMAIN sub.entries THEN sub.entries
                   ELSE Put(sub.entries, mv, entry),
                   IF entry.tag = "Kind" THEN Put(sub.mv_info, mv, entry.kind)
                   ELSE sub.mv_info),
   old |-> SubstGet(sub, mv)]

\* Subst::insert: a Kind entry is also recorded in mv_info; the entry for mv
\* is replaced, and the previous one returned
SubstInsert(sub, mv, entry) ==
  [sub |-> SubstOf(Put(sub.entries, mv, entry),
                   IF entry.tag = "Kind" THEN Put(sub.mv_info, mv, entry.kind)
                   ELSE sub.mv_info),
   old |-> SubstGet(sub, mv)]

IsSolved(sub, mv) == SubstGet(sub, mv).some /\ SubstGet(sub, mv).val.tag = "Solved"

RECURSIVE MvsOf(_)
\* the meta variables occurring in a type
MvsOf(ty) ==
  CASE ty.tag = "MetaVar" -> {ty.mv}
    [] ty.tag = "Con" -> UNION {MvsOf(ty.args[i]) : i \in DOMAIN ty.args}
    [] ty.tag = "Fn" -> MvsOf(ty.param) \cup MvsOf(ty.res)
    [] ty.tag = "Record" -> UNION {MvsOf(ty.rows[l]) : l \in DOMAIN ty.rows}
    [] OTHER -> {}

\* what apply yields when it does not terminate
Diverges == [tag |-> "Diverges"]

RECURSIVE HasDiverges(_)
HasDiverges(ty) ==
  CASE ty.tag = "Diverges" -> TRUE
    [] ty.tag = "Con" -> \E i \in DOMAIN ty.args : HasDiverges(ty.args[i])
    [] ty.tag = "Fn" -> HasDiverges(ty.param) \/ HasDiverges(ty.res)
    [] ty.tag = "Record" -> \E l \in DOMAIN ty.rows : HasDiverges(ty.rows[l])
    [] OTHER -> FALSE

RECURSIVE ApplyWalk(_, _, _)
\* the walk of apply; fuel counts the solutions entered one inside the other:
\* more than NumMv of them means a meta variable is reached from its own
\* solution, and the walk never ends
ApplyWalk(sub, ty, fuel) ==
  CASE ty.tag = "MetaVar" ->
         IF IsSolved(sub, ty.mv)
         THEN IF fuel = 0 THEN Diverges
              ELSE ApplyWalk(sub, SubstGet(sub, ty.mv).val.ty, fuel - 1)
         ELSE ty
    [] ty.tag = "Con" ->
         Con([i \in DOMAIN ty.args |-> ApplyWalk(sub, ty.args[i], fuel)], ty.sym)
    [] ty.tag = "Fn" ->
         Fn(ApplyWalk(sub, ty.param, fuel), ApplyWalk(sub, ty.res, fuel))
    [] ty.tag = "Record" ->
         Record([l \in DOMAIN ty.rows |-> ApplyWalk(sub, ty.rows[l], fuel)])
    [] OTHER -> ty

RECURSIVE ApplyOnce(_, _)
ApplyOnce(sub, ty) ==
  CASE ty.tag = "MetaVar" ->
         IF IsSolved(sub, ty.mv) THEN SubstGet(sub, ty.mv).val.ty ELSE ty
    [] ty.tag = "Con" ->
         Con([i \in DOMAIN ty.args |-> ApplyOnce(sub, ty.args[i])], ty.sym)
    [] ty.tag = "Fn" -> Fn(ApplyOnce(sub, ty.param), ApplyOnce(sub, ty.res))
    [] ty.tag = "Record" ->
         Record([l \in DOMAIN ty.rows |-> ApplyOnce(sub, ty.rows[l])])
    [] OTHER -> ty

\* apply: walk ty, replacing each solved MetaVar by its solution, recursively
Apply(sub, ty) ==
  IF HasDiverges(ApplyWalk(sub, ty, NumMv)) THEN Diverges
  ELSE ApplyWalk(sub, ty, NumMv)

TyINT == TyZero(SymINT)
TyREAL == TyZero(SymREAL)
TyList(a) == Con(<<a>>, SymLIST)

\* the leaves of the types given to unify and to apply
Atoms == {TyNone, TyINT} \cup {MetaVar(mv) : mv \in MVs}

\* the types given to unify and to apply
UTys ==
  Atoms \cup {TyFun(x, y) : x \in Atoms, y \in Atoms}
        \cup {TyList(TyINT), TyList(MetaVar(0))}
        \cup {TyREAL, TyUnit, Record(<<TyINT>>)}

\* the types recorded as solutions by direct calls of Subst::insert
SolTys ==
  {TyINT, TyNone} \cup {MetaVar(mv) : mv \in MVs}
     \cup {TyFun(MetaVar(mv), TyINT) : mv \in MVs}
     \cup {TyList(MetaVar(mv)) : mv \in MVs}

\* the entries given to direct calls of Subst::insert
InsertEntries == {KindEntry(KEquality)} \cup {Solved(ty) : ty \in SolTys}

Sub == SubstOf(entries, mv_info)

\* a Subst::default() on which insert is about to be called
SubstInit ==
  /\ entries = NoEntries
  /\ mv_info = NoEntries
  /\ ucount = 0
  /\ ua = TyNone
  /\ ub = TyNone
  /\ ures = "idle"
  /\ OverloadIdle
  /\ EnrichIdle
  /\ AppendIdle
  /\ LaterIdle
  /\ mode = "default"
  /\ syms = <<>>
  /\ exns = <<>>
  /\ overloads = NoOverloads
  /\ handles = <<>>
  /\ panicked = "no"
  /\ marks = {}
  /\ mpc = MDone
  /\ exnRets = <<>>
  /\ bs = EmptyBs

\* Subst::insert
Insert(mv, entry) ==
  /\ entries' = SubstInsert(Sub, mv, entry).sub.entries
  /\ mv_info' = SubstInsert(Sub, mv, entry).sub.mv_info
  /\ UNCHANGED <<ucount, ua, ub, ures>>
  /\ UNCHANGED notSubstVars

SubstNext ==
  \E mv \in MVs, entry \in InsertEntries : Insert(mv, entry)

SpecSubst == SubstInit /\ [][SubstNext]_vars

-----------------------------------------------------------------------------
(* Properties of Subst. *)

C9_ApplyIdempotent ==
  \A ty \in UTys :
    /\ Apply(Sub, ty) /= Diverges
    /\ Apply(Sub, Apply(Sub, ty)) = Apply(Sub, ty)

\* the meta variables reached from mv through at most n solutions
RECURSIVE ReachedFrom(_, _)
ReachedFrom(S, n) ==
  IF n = 0 THEN S
  ELSE S \cup ReachedFrom(UNION {MvsOf(entries[m].ty) :
                                   m \in {x \in S : IsSolved(Sub, x)}}, n - 1)

\* no solved meta variable occurs in its own solution, directly or through
\* other solutions: what the occurs check of unification maintains
Acyclic ==
  \A mv \in MVs :
    IsSolved(Sub, mv) => mv \notin ReachedFrom(MvsOf(entries[mv].ty), NumMv)

\* C9 amended: in every state of Subst where no solved meta variable occurs
\* in its own solution, directly or through other solutions, apply terminates
\* and is idempotent on every type.
C9_ApplyIdempotentWhenAcyclic ==
  Acyclic =>
    \A ty \in UTys :
      /\ Apply(Sub, ty) /= Diverges
      /\ Apply(Sub, Apply(Sub, ty)) = Apply(Sub, ty)

\* C9 witness: a chain of two solutions, which apply follows to the end.
C9_Witness ==
  /\ Acyclic
  /\ IsSolved(Sub, 0) /\ SubstGet(Sub, 0).val.ty = TyFun(MetaVar(1), TyINT)
  /\ IsSolved(Sub, 1) /\ SubstGet(Sub, 1).val.ty = TyINT
  /\ Apply(Sub, TyList(MetaVar(0))) = TyList(TyFun(TyINT, TyINT))

-----------------------------------------------------------------------------
(* Unification, as the design describes it, over Subst::insert and          *)
(* Subst::get. A result is [ok, sub]: whether it succeeded, and the Subst   *)
(* it leaves, which keeps the bindings made before a failure.               *)

UOk(sub) == [ok |-> TRUE, sub |-> sub]
UErr(sub) == [ok |-> FALSE, sub |-> sub]

RECURSIVE Resolve(_, _, _)
\* the top level of a type under the Subst: a solved meta variable is
\* replaced by its solution, repeatedly
Resolve(sub, ty, fuel) ==
  IF ty.tag = "MetaVar" /\ IsSolved(sub, ty.mv) /\ fuel > 0
  THEN Resolve(sub, SubstGet(sub, ty.mv).val.ty, fuel - 1)
  ELSE ty

\* whether the meta variable carries the equality kind
HasEqKind(sub, mv) ==
  /\ SubstGet(sub, mv).some
  /\ SubstGet(sub, mv).val.tag = "Kind"
  /\ SubstGet(sub, mv).val.kind = KEquality

RECURSIVE EqAdmit(_, _)
RECURSIVE EqAdmitSeq(_, _, _)
\* equality admission of a type already applied: Never fails, Always
\* succeeds, Sometimes asks the arguments; an unsolved meta variable takes the
\* equality kind; a function type never admits equality
EqAdmit(sub, ty) ==
  CASE ty.tag = "MetaVar" -> UOk(SubstInsert(sub, ty.mv, KindEntry(KEquality)).sub)
    [] ty.tag = "Con" ->
         IF ty.sym /= SymEXN /\ SpecialEquality(ty.sym) = "Never" THEN UErr(sub)
         ELSE IF ty.sym /= SymEXN /\ SpecialEquality(ty.sym) = "Always" THEN UOk(sub)
         ELSE EqAdmitSeq(sub, ty.args, 1)
    [] ty.tag = "Record" -> EqAdmitSeq(sub, ty.rows, 1)
    [] ty.tag = "Fn" -> UErr(sub)
    [] OTHER -> UOk(sub)

EqAdmitSeq(sub, tys, i) ==
  IF i > Len(tys) THEN UOk(sub)
  ELSE LET r == EqAdmit(sub, tys[i])
       IN IF r.ok THEN EqAdmitSeq(r.sub, tys, i + 1) ELSE r

RECURSIVE Unify(_, _, _)
RECURSIVE UnifySeq(_, _, _, _)

\* MetaVar(mv) against ty, both resolved: the occurs check, the kind check,
\* then the solution is recorded
UnifyMv(sub, mv, ty) ==
  IF ty = MetaVar(mv) THEN UOk(sub)
  ELSE IF mv \in MvsOf(Apply(sub, ty)) \/ Apply(sub, ty) = Diverges THEN UErr(sub)
  ELSE IF HasEqKind(sub, mv)
       THEN LET r == EqAdmit(sub, Apply(sub, ty))
            IN IF r.ok THEN UOk(SubstInsert(r.sub, mv, Solved(ty)).sub) ELSE r
       ELSE UOk(SubstInsert(sub, mv, Solved(ty)).sub)

\* unify(a, b)
Unify(sub, a, b) ==
  LET ra == Resolve(sub, a, NumMv)
      rb == Resolve(sub, b, NumMv)
  IN CASE ra.tag = "None" \/ rb.tag = "None" -> UOk(sub)
       [] ra.tag = "BoundVar" /\ rb.tag = "BoundVar" ->
            IF ra.n = rb.n THEN UOk(sub) ELSE UErr(sub)
       [] ra.tag = "FixedVar" /\ rb.tag = "FixedVar" ->
            IF ra.fv = rb.fv THEN UOk(sub) ELSE UErr(sub)
       [] ra.tag = "MetaVar" -> UnifyMv(sub, ra.mv, rb)
       [] rb.tag = "MetaVar" -> UnifyMv(sub, rb.mv, ra)
       [] ra.tag = "Record" /\ rb.tag = "Record" ->
            IF DOMAIN ra.rows = DOMAIN rb.rows
            THEN UnifySeq(sub, ra.rows, rb.rows, 1) ELSE UErr(sub)
       [] ra.tag = "Con" /\ rb.tag = "Con" ->
            IF ra.sym = rb.sym /\ Len(ra.args) = Len(rb.args)
            THEN UnifySeq(sub, ra.args, rb.args, 1) ELSE UErr(sub)
       [] ra.tag = "Fn" /\ rb.tag = "Fn" ->
            UnifySeq(sub, <<ra.param, ra.res>>, <<rb.param, rb.res>>, 1)
       [] OTHER -> UErr(sub)

UnifySeq(sub, as, bs_, i) ==
  IF i > Len(as) THEN UOk(sub)
  ELSE LET r == Unify(sub, as[i], bs_[i])
       IN IF r.ok THEN UnifySeq(r.sub, as, bs_, i + 1) ELSE r

\* a Subst::default(), or one where meta variable 0 was made with the
\* equality kind; unify is about to be called
UnifyInit ==
  /\ \E eq \in BOOLEAN :
       /\ entries = IF eq THEN SubstInsert(EmptySubst, 0, KindEntry(KEquality)).sub.entries
                    ELSE NoEntries
       /\ mv_info = IF eq THEN SubstInsert(EmptySubst, 0, KindEntry(KEquality)).sub.mv_info
                    ELSE NoEntries
  /\ ucount = 0
  /\ ua = TyNone
  /\ ub = TyNone
  /\ ures = "idle"
  /\ OverloadIdle
  /\ EnrichIdle
  /\ AppendIdle
  /\ LaterIdle
  /\ mode = "default"
  /\ syms = <<>>
  /\ exns = <<>>
  /\ overloads = NoOverloads
  /\ handles = <<>>
  /\ panicked = "no"
  /\ marks = {}
  /\ mpc = MDone
  /\ exnRets = <<>>
  /\ bs = EmptyBs

\* one call of unify on the Subst
UnifyStep(a, b) ==
  /\ ures = "idle"
  /\ ucount < MaxUnify
  /\ ucount' = ucount + 1
  /\ entries' = Unify(Sub, a, b).sub.entries
  /\ mv_info' = Unify(Sub, a, b).sub.mv_info
  /\ ua' = a
  /\ ub' = b
  /\ ures' = IF Unify(Sub, a, b).ok THEN "ok" ELSE "err"
  /\ UNCHANGED notSubstVars

\* the caller of unify goes on: the Subst stays, the arguments are gone
UnifyReturn ==
  /\ ures /= "idle"
  /\ ua' = TyNone
  /\ ub' = TyNone
  /\ ures' = "idle"
  /\ UNCHANGED <<entries, mv_info, ucount>>
  /\ UNCHANGED notSubstVars

UnifyNext ==
  \/ \E a \in UTys, b \in UTys : UnifyStep(a, b)
  \/ UnifyReturn

SpecUnify == UnifyInit /\ [][UnifyNext]_vars

RECURSIVE EqualButNone(_, _)
\* structural equality, except that None is equal to anything
EqualButNone(x, y) ==
  CASE x.tag = "None" \/ y.tag = "None" -> TRUE
    [] x.tag /= y.tag -> FALSE
    [] x.tag = "Fn" -> EqualButNone(x.param, y.param) /\ EqualButNone(x.res, y.res)
    [] x.tag = "Con" ->
         /\ x.sym = y.sym
         /\ Len(x.args) = Len(y.args)
         /\ \A i \in DOMAIN x.args : EqualButNone(x.args[i], y.args[i])
    [] x.tag = "Record" ->
         /\ DOMAIN x.rows = DOMAIN y.rows
         /\ \A l \in DOMAIN x.rows : EqualButNone(x.rows[l], y.rows[l])
    [] OTHER -> x = y

RECURSIVE HasNone(_)
HasNone(ty) ==
  CASE ty.tag = "None" -> TRUE
    [] ty.tag = "Con" -> \E i \in DOMAIN ty.args : HasNone(ty.args[i])
    [] ty.tag = "Fn" -> HasNone(ty.param) \/ HasNone(ty.res)
    [] ty.tag = "Record" -> \E l \in DOMAIN ty.rows : HasNone(ty.rows[l])
    [] OTHER -> FALSE

\* C10 as stated: if unify(a, b) succeeds, apply(a) and apply(b) are
\* structurally equal under the resulting Subst.
C10_UnifySound ==
  ures = "ok" => Apply(Sub, ua) = Apply(Sub, ub)

\* C10 amended: if unify(a, b) succeeds, apply(a) and apply(b) are
\* structurally equal under the resulting Subst except where one of them has
\* Ty::None, which unify accepts against anything; they are equal outright
\* when neither contains Ty::None.
C10_UnifySoundButNone ==
  ures = "ok" =>
    /\ Apply(Sub, ua) /= Diverges
    /\ Apply(Sub, ub) /= Diverges
    /\ EqualButNone(Apply(Sub, ua), Apply(Sub, ub))
    /\ ~HasNone(Apply(Sub, ua)) /\ ~HasNone(Apply(Sub, ub))
         => Apply(Sub, ua) = Apply(Sub, ub)

\* C10 witness: unify has succeeded by solving one meta variable to another
\* and then that one, under the first solution, to int; both sides apply to
\* int -> int.
C10_Witness ==
  /\ ures = "ok"
  /\ ucount = 1
  /\ IsSolved(Sub, 0) /\ IsSolved(Sub, 1)
  /\ ua = TyFun(MetaVar(0), MetaVar(1))
  /\ ub = TyFun(MetaVar(1), TyINT)
  /\ Apply(Sub, ua) = TyFun(TyINT, TyINT)
  /\ Apply(Sub, ub) = TyFun(TyINT, TyINT)

-----------------------------------------------------------------------------
(* Overload unification as a state machine: two overloads are drawn and     *)
(* unify is applied to them.                                                *)

OverloadInit ==
  /\ ova \in Overloads
  /\ ovb \in Overloads
  /\ ovres = NotCalled
  /\ EnrichIdle
  /\ AppendIdle
  /\ LaterIdle
  /\ entries = NoEntries
  /\ mv_info = NoEntries
  /\ ucount = 0
  /\ ua = TyNone
  /\ ub = TyNone
  /\ ures = "idle"
  /\ mode = "default"
  /\ syms = <<>>
  /\ exns = <<>>
  /\ overloads = NoOverloads
  /\ handles = <<>>
  /\ panicked = "no"
  /\ marks = {}
  /\ mpc = MDone
  /\ exnRets = <<>>
  /\ bs = EmptyBs

\* Overload::unify(ova, ovb)
OvUnify ==
  /\ ovres = NotCalled
  /\ ovres' = Returned(OverloadUnify(ova, ovb))
  /\ UNCHANGED <<ova, ovb>>
  /\ UNCHANGED notOverloadVars

OverloadNext ==
  \/ OvUnify

SpecOverload == OverloadInit /\ [][OverloadNext]_vars

-----------------------------------------------------------------------------
(* Properties of overload unification. *)

\* the basics of an overload, as a set
BasicsOf(ov) == {OverloadAsBasics(ov)[i] : i \in DOMAIN OverloadAsBasics(ov)}

\* C11: Overload::unify(a, b) is None iff as_basics(a) and as_basics(b) have
\* no common basic, and otherwise the basics of its result are, as a set,
\* exactly the common basics of a and b.
C11_UnifyIsIntersection ==
  ovres /= NotCalled =>
    /\ ~ovres.ret.some <=> BasicsOf(ova) \cap BasicsOf(ovb) = {}
    /\ ovres.ret.some =>
         BasicsOf(ovres.ret.val) = BasicsOf(ova) \cap BasicsOf(ovb)

\* C11 witness: two composites with one common basic unify to that basic.
C11_Witness ==
  /\ ova = OvComposite("NumTxtEq")
  /\ ovb = OvComposite("RealInt")
  /\ ovres = Returned(Some(OvBasic("Int")))

\* C12: unifying an overload O with NumTxtEq, the equality kind, fails exactly
\* when O is the basic overload Real, and otherwise returns an overload whose
\* basics are those of O without Real.
C12_EqualityTightening ==
  ovres /= NotCalled /\ ovb = OvComposite("NumTxtEq") =>
    /\ ~ovres.ret.some <=> ova = OvBasic("Real")
    /\ ovres.ret.some => BasicsOf(ovres.ret.val) = BasicsOf(ova) \ {"Real"}

\* C12 witness: Num tightened with the equality kind is WordInt.
C12_Witness ==
  /\ ova = OvComposite("Num")
  /\ ovb = OvComposite("NumTxtEq")
  /\ ovres = Returned(Some(OvComposite("WordInt")))

-----------------------------------------------------------------------------
(* Enrichment: core/src/statics/ck/enrich.rs. A Result<()> is "ok" or the   *)
(* message of the error. Every function is given, besides its arguments,    *)
(* the Subst its caller owns (main) and returns it as it leaves it.         *)

CoreTyScheme(ty_vars, ty) == [ty_vars |-> ty_vars, ty |-> ty]
CoreValInfo(ty_scheme, id_status) == [ty_scheme |-> ty_scheme, id_status |-> id_status]
TyInfoAlias(ty_fcn) == [tag |-> "Alias", ty_fcn |-> ty_fcn]
TyInfoSym(sym) == [tag |-> "Sym", sym |-> sym]
SymTyInfoOf(ty_fcn, val_env) == [ty_fcn |-> ty_fcn, val_env |-> val_env]

IdStatuses == {"Val", "Con", "Exn"}

\* IdStatus::is_val
IsVal(id_status) == id_status = "Val"

\* the names the maps are keyed by, in the order the BTreeMaps iterate them
CkNames == <<"A", "B", "S", "T", "t", "u", "x", "y">>

RECURSIVE TyVarsOf(_)
\* the type variables tv occurring in a type
TyVarsOf(ty) ==
  CASE ty.tag = "FixedVar" -> {ty.fv}
    [] ty.tag = "Con" -> UNION {TyVarsOf(ty.args[i]) : i \in DOMAIN ty.args}
    [] ty.tag = "Fn" -> TyVarsOf(ty.param) \cup TyVarsOf(ty.res)
    [] ty.tag = "Record" -> UNION {TyVarsOf(ty.rows[l]) : l \in DOMAIN ty.rows}
    [] OTHER -> {}

\* TyScheme::free_ty_vars
FreeTyVars(scheme) == TyVarsOf(scheme.ty) \ scheme.ty_vars

\* TyInfo::ty_fcn
TyFcnOf(sym_tys, ty_info) ==
  IF ty_info.tag = "Alias" THEN ty_info.ty_fcn ELSE sym_tys[ty_info.sym].ty_fcn

CkRet(res, main) == [res |-> res, main |-> main]

\* the `?` of Rust: r is computed once; an error is returned at once, and
\* otherwise next goes on from the result
Try(r, next(_)) ==
  CHOOSE x \in {IF v.res /= "ok" THEN CkRet(v.res, v.main) ELSE next(v) : v \in {r}} : TRUE

CkGeneralizesInMain(main, want, got) ==
  IF got.ty_vars \cap FreeTyVars(want) /= {}
  THEN CkRet("bad free ty var", main)
  ELSE CHOOSE x \in {CkRet(IF u.ok THEN "ok" ELSE "unify", u.sub) :
                       u \in {Unify(main, want.ty, got.ty)}} : TRUE

\* ck_generalizes: the unification runs in a Subst::default() of its own,
\* which is returned and dropped by the callers
CkGeneralizes(main, want, got) ==
  IF got.ty_vars \cap FreeTyVars(want) /= {}
  THEN CkRet("bad free ty var", main)
  ELSE CHOOSE x \in {CkRet(IF u.ok THEN "ok" ELSE "unify", main) :
                       u \in {Unify(EmptySubst, want.ty, got.ty)}} : TRUE

\* ck_ty_fcn_eq
CkTyFcnEq(main, got, want) ==
  Try(CkGeneralizes(main, want, got),
      LAMBDA r1 : CkGeneralizes(r1.main, got, want))

CkValInfoValAsCon(main, got, want) ==
  IF /\ got.id_status /= want.id_status
     /\ ~IsVal(want.id_status)
     /\ ~(got.id_status = "Val" /\ want.id_status = "Con")
  THEN CkRet("incompatible id statuses", main)
  ELSE CkGeneralizes(main, want.ty_scheme, got.ty_scheme)

\* ck_val_info
CkValInfo(main, got, want) ==
  IF got.id_status /= want.id_status /\ ~IsVal(want.id_status)
  THEN CkRet("incompatible id statuses", main)
  ELSE CkGeneralizes(main, want.ty_scheme, got.ty_scheme)

RECURSIVE CkValEnvEqFromNoStatus(_, _, _, _)
CkValEnvEqFromNoStatus(main, got, want, i) ==
  IF i > Len(CkNames) THEN CkRet("ok", main)
  ELSE IF CkNames[i] \notin DOMAIN want
  THEN CkValEnvEqFromNoStatus(main, got, want, i + 1)
  ELSE Try(CkTyFcnEq(main, got[CkNames[i]].ty_scheme, want[CkNames[i]].ty_scheme),
           LAMBDA r : CkValEnvEqFromNoStatus(r.main, got, want, i + 1))

RECURSIVE CkValEnvEqFrom(_, _, _, _)
\* ck_val_env_eq: the loop over want, from the i-th name on
CkValEnvEqFrom(main, got, want, i) ==
  IF i > Len(CkNames) THEN CkRet("ok", main)
  ELSE IF CkNames[i] \notin DOMAIN want THEN CkValEnvEqFrom(main, got, want, i + 1)
  ELSE IF want[CkNames[i]].id_status /= got[CkNames[i]].id_status
  THEN CkRet("unequal id statuses", main)
  ELSE Try(CkTyFcnEq(main, got[CkNames[i]].ty_scheme, want[CkNames[i]].ty_scheme),
           LAMBDA r : CkValEnvEqFrom(r.main, got, want, i + 1))

\* ck_val_env_eq; eq_iter compares the keys of the two maps in their order
CkValEnvEq(main, got, want) ==
  IF DOMAIN want /= DOMAIN got THEN CkRet("unequal keys", main)
  ELSE CkValEnvEqFrom(main, got, want, 1)

CkTyInfoAliasGot(main, sym_tys, got, want) ==
  Try(CkTyFcnEq(main, TyFcnOf(sym_tys, got), TyFcnOf(sym_tys, want)),
      LAMBDA r :
        IF want.tag = "Alias" THEN CkRet("ok", r.main)
        ELSE IF DOMAIN sym_tys[want.sym].val_env = {} THEN CkRet("ok", r.main)
        ELSE IF got.tag = "Alias" THEN CkRet("ok", r.main)
        ELSE CkValEnvEq(r.main, sym_tys[got.sym].val_env, sym_tys[want.sym].val_env))

\* ck_ty_info
CkTyInfo(main, sym_tys, got, want) ==
  Try(CkTyFcnEq(main, TyFcnOf(sym_tys, got), TyFcnOf(sym_tys, want)),
      LAMBDA r :
        IF want.tag = "Alias" THEN CkRet("ok", r.main)
        ELSE IF DOMAIN sym_tys[want.sym].val_env = {} THEN CkRet("ok", r.main)
        ELSE IF got.tag = "Alias" THEN CkRet("got empty want non-empty", r.main)
        ELSE CkValEnvEq(r.main, sym_tys[got.sym].val_env, sym_tys[want.sym].val_env))

RECURSIVE CkTysFrom(_, _, _, _, _)
\* ck: the loop over want.ty_env, from the i-th name on
CkTysFrom(main, sym_tys, got, want, i) ==
  IF i > Len(CkNames) THEN CkRet("ok", main)
  ELSE IF CkNames[i] \notin DOMAIN want.ty_env
  THEN CkTysFrom(main, sym_tys, got, want, i + 1)
  ELSE IF CkNames[i] \notin DOMAIN got.ty_env THEN CkRet("missing a type", main)
  ELSE Try(CkTyInfo(main, sym_tys, got.ty_env[CkNames[i]], want.ty_env[CkNames[i]]),
           LAMBDA r : CkTysFrom(r.main, sym_tys, got, want, i + 1))

RECURSIVE CkValsFromSkipMissing(_, _, _, _)
CkValsFromSkipMissing(main, got, want, i) ==
  IF i > Len(CkNames) THEN CkRet("ok", main)
  ELSE IF CkNames[i] \notin DOMAIN want.val_env
  THEN CkValsFromSkipMissing(main, got, want, i + 1)
  ELSE IF CkNames[i] \notin DOMAIN got.val_env
  THEN CkValsFromSkipMissing(main, got, want, i + 1)
  ELSE Try(CkValInfo(main, got.val_env[CkNames[i]], want.val_env[CkNames[i]]),
           LAMBDA r : CkValsFromSkipMissing(r.main, got, want, i + 1))

RECURSIVE CkValsFrom(_, _, _, _)
\* ck: the loop over want.val_env, from the i-th name on
CkValsFrom(main, got, want, i) ==
  IF i > Len(CkNames) THEN CkRet("ok", main)
  ELSE IF CkNames[i] \notin DOMAIN want.val_env THEN CkValsFrom(main, got, want, i + 1)
  ELSE IF CkNames[i] \notin DOMAIN got.val_env THEN CkRet("missing a value", main)
  ELSE Try(CkValInfo(main, got.val_env[CkNames[i]], want.val_env[CkNames[i]]),
           LAMBDA r : CkValsFrom(r.main, got, want, i + 1))

RECURSIVE CkValuesFirst(_, _, _, _)
RECURSIVE CkStrsFromValuesFirst(_, _, _, _, _)
CkValuesFirst(main, sym_tys, got, want) ==
  Try(CkStrsFromValuesFirst(main, sym_tys, got, want, 1),
      LAMBDA r1 : Try(CkValsFrom(r1.main, got, want, 1),
                      LAMBDA r2 : CkTysFrom(r2.main, sym_tys, got, want, 1)))

CkStrsFromValuesFirst(main, sym_tys, got, want, i) ==
  IF i > Len(CkNames) THEN CkRet("ok", main)
  ELSE IF CkNames[i] \notin DOMAIN want.str_env
  THEN CkStrsFromValuesFirst(main, sym_tys, got, want, i + 1)
  ELSE IF CkNames[i] \notin DOMAIN got.str_env THEN CkRet("missing a struct", main)
  ELSE Try(CkValuesFirst(main, sym_tys, got.str_env[CkNames[i]], want.str_env[CkNames[i]]),
           LAMBDA r : CkStrsFromValuesFirst(r.main, sym_tys, got, want, i + 1))

RECURSIVE Ck(_, _, _, _)
RECURSIVE CkStrsFrom(_, _, _, _, _)
\* ck: structures, then types, then values, returning at the first error
Ck(main, sym_tys, got, want) ==
  Try(CkStrsFrom(main, sym_tys, got, want, 1),
      LAMBDA r1 : Try(CkTysFrom(r1.main, sym_tys, got, want, 1),
                      LAMBDA r2 : CkValsFrom(r2.main, got, want, 1)))

\* ck: the loop over want.str_env, from the i-th name on
CkStrsFrom(main, sym_tys, got, want, i) ==
  IF i > Len(CkNames) THEN CkRet("ok", main)
  ELSE IF CkNames[i] \notin DOMAIN want.str_env
  THEN CkStrsFrom(main, sym_tys, got, want, i + 1)
  ELSE IF CkNames[i] \notin DOMAIN got.str_env THEN CkRet("missing a struct", main)
  ELSE Try(Ck(main, sym_tys, got.str_env[CkNames[i]], want.str_env[CkNames[i]]),
           LAMBDA r : CkStrsFrom(r.main, sym_tys, got, want, i + 1))

-----------------------------------------------------------------------------
(* The environments ck is called on. A type variable tv of a scheme is      *)
(* written FixedVar(tv); MetaVar(0) is a meta variable elaboration has left *)
(* unsolved in the type of an expansive declaration.                        *)

TyBOOL == TyZero(SymBOOL)
TvA == FixedVar("a")

\* generated type names: the Syms that follow the built-in ones
SymG == SymREF + 3 \* datatype g = A
SymW1 == SymREF + 4 \* a specification of g with the same constructor
SymW2 == SymREF + 5 \* a specification of g with constructors A and B
SymW3 == SymREF + 6 \* a specification of g whose A is an exception
SymW4 == SymREF + 7 \* a specification of g whose A carries an int
SymAbs == SymREF + 8 \* an abstract type
SymE == SymREF + 9 \* a type equal to g that has no constructors

SchInt == CoreTyScheme({}, TyINT)
SchBool == CoreTyScheme({}, TyBOOL)
SchIntInt == CoreTyScheme({}, Fn(TyINT, TyINT))
SchBoolBool == CoreTyScheme({}, Fn(TyBOOL, TyBOOL))
SchId == CoreTyScheme({"a"}, Fn(TvA, TvA))
SchFree == CoreTyScheme({}, Fn(TvA, TvA))
SchMeta == CoreTyScheme({}, Fn(MetaVar(0), MetaVar(0)))
SchG == CoreTyScheme({}, TyZero(SymG))

\* the type schemes of the values
CkSchemes == {SchInt, SchBool, SchIntInt, SchId, SchFree, SchMeta}

Map1(k, v) == [n \in {k} |-> v]
Map2(k1, v1, k2, v2) == [n \in {k1, k2} |-> IF n = k1 THEN v1 ELSE v2]

\* the SymTys: the type function and the constructors of each generated name
CkStore ==
  [sym \in {SymG, SymW1, SymW2, SymW3, SymW4, SymAbs, SymE} |->
     CASE sym = SymG -> SymTyInfoOf(SchG, Map1("A", CoreValInfo(SchG, "Con")))
       [] sym = SymW1 -> SymTyInfoOf(SchG, Map1("A", CoreValInfo(SchG, "Con")))
       [] sym = SymW2 ->
            SymTyInfoOf(SchG, Map2("A", CoreValInfo(SchG, "Con"),
                                   "B", CoreValInfo(SchG, "Con")))
       [] sym = SymW3 -> SymTyInfoOf(SchG, Map1("A", CoreValInfo(SchG, "Exn")))
       [] sym = SymW4 ->
            SymTyInfoOf(SchG,
              Map1("A", CoreValInfo(CoreTyScheme({}, Fn(TyINT, TyZero(SymG))), "Con")))
       [] sym = SymAbs -> SymTyInfoOf(CoreTyScheme({}, TyZero(SymAbs)), EmptyMap)
       [] sym = SymE -> SymTyInfoOf(SchG, EmptyMap)]

ValOnly(ve) == EnvOf(EmptyMap, EmptyMap, ve)
TyOnly(te) == EnvOf(EmptyMap, te, EmptyMap)
StrOnly(se) == EnvOf(se, EmptyMap, EmptyMap)

IntVal == CoreValInfo(SchInt, "Val")
BoolVal == CoreValInfo(SchBool, "Val")

\* environments that bind the value x
CkValEnvs ==
  {ValOnly(Map1("x", CoreValInfo(sch, st))) : sch \in CkSchemes, st \in IdStatuses}

\* environments that bind the values x and y
CkTwoValEnvs ==
  {ValOnly(Map2("x", IntVal, "y", vi)) :
     vi \in {IntVal, BoolVal, CoreValInfo(SchInt, "Con")}}
  \cup {ValOnly(Map2("x", CoreValInfo(SchIntInt, "Val"),
                     "y", CoreValInfo(SchBoolBool, "Val"))),
        ValOnly(Map2("x", CoreValInfo(SchMeta, "Val"),
                     "y", CoreValInfo(SchMeta, "Val")))}

CkTyInfos ==
  {TyInfoAlias(SchInt), TyInfoAlias(SchG), TyInfoAlias(CoreTyScheme({"a"}, TvA))}
  \cup {TyInfoSym(sym) : sym \in DOMAIN CkStore}

\* environments that bind the type t
CkTyEnvs == {TyOnly(Map1("t", ti)) : ti \in CkTyInfos}

CkInnerEnvs ==
  {EmptyEnv, ValOnly(Map1("x", IntVal)), ValOnly(Map1("x", BoolVal)),
   StrOnly(Map1("S", ValOnly(Map1("x", IntVal)))), StrOnly(Map1("S", EmptyEnv))}

\* environments that bind the structure S
CkStrEnvs == {StrOnly(Map1("S", e)) : e \in CkInnerEnvs}

\* environments that bind several kinds of names
CkMixedEnvs ==
  {EnvOf(Map1("S", ValOnly(Map1("x", xi))), Map1("t", ti), Map1("x", vi)) :
     xi \in {IntVal, BoolVal}, ti \in {TyInfoAlias(SchInt), TyInfoAlias(SchG)},
     vi \in {IntVal}}
  \cup {EnvOf(EmptyMap, Map1("t", ti), Map1("x", vi)) :
     ti \in {TyInfoAlias(SchInt), TyInfoAlias(SchG)}, vi \in {IntVal, BoolVal}}
  \cup {StrOnly(Map2("S", ValOnly(Map1("x", IntVal)), "T", ValOnly(Map1("x", IntVal)))),
        StrOnly(Map2("S", ValOnly(Map1("x", BoolVal)), "T", EmptyEnv))}

CkEnvs ==
  {EmptyEnv} \cup CkValEnvs \cup CkTwoValEnvs \cup CkTyEnvs \cup CkStrEnvs
  \cup CkMixedEnvs

\* the Subst of the caller: empty, or with meta variable 0 solved
CkMains == {EmptySubst, SubstInsert(EmptySubst, 0, Solved(TyINT)).sub}

-----------------------------------------------------------------------------
(* ck as a state machine: the caller holds a Subst and a SymTys, and calls  *)
(* ck on two environments.                                                  *)

EnrichInit ==
  /\ ckSymTys = CkStore
  /\ ckGot \in CkEnvs
  /\ ckWant \in CkEnvs
  /\ ckRes = NotCalled
  /\ \E main \in CkMains : entries = main.entries /\ mv_info = main.mv_info
  /\ ucount = 0
  /\ ua = TyNone
  /\ ub = TyNone
  /\ ures = "idle"
  /\ mode = "default"
  /\ syms = <<>>
  /\ exns = <<>>
  /\ overloads = NoOverloads
  /\ handles = <<>>
  /\ panicked = "no"
  /\ marks = {}
  /\ mpc = MDone
  /\ exnRets = <<>>
  /\ bs = EmptyBs
  /\ OverloadIdle
  /\ AppendIdle
  /\ LaterIdle

\* ck(loc, &sym_tys, &got, &want)
CkCall ==
  /\ ckRes = NotCalled
  /\ \E r \in {Ck(Sub, ckSymTys, ckGot, ckWant)} :
       /\ ckRes' = Returned(r.res)
       /\ entries' = r.main.entries
       /\ mv_info' = r.main.mv_info
  /\ UNCHANGED <<ckSymTys, ckGot, ckWant>>
  /\ UNCHANGED notEnrichVars

EnrichNext ==
  \/ CkCall

SpecEnrich == EnrichInit /\ [][EnrichNext]_vars

-----------------------------------------------------------------------------
(* Properties of ck.                                                        *)

RECURSIVE NamesCovered(_, _)
\* every structure, type and value name of want, at the top level or inside
\* a structure, is bound in got at the same place
NamesCovered(got, want) ==
  /\ DOMAIN want.val_env \subseteq DOMAIN got.val_env
  /\ DOMAIN want.ty_env \subseteq DOMAIN got.ty_env
  /\ DOMAIN want.str_env \subseteq DOMAIN got.str_env
  /\ \A n \in DOMAIN want.str_env : NamesCovered(got.str_env[n], want.str_env[n])

RECURSIVE EnvExtends(_, _)
\* big binds every name of small to the same thing, and may bind more names
EnvExtends(big, small) ==
  /\ DOMAIN small.val_env \subseteq DOMAIN big.val_env
  /\ \A n \in DOMAIN small.val_env : big.val_env[n] = small.val_env[n]
  /\ DOMAIN small.ty_env \subseteq DOMAIN big.ty_env
  /\ \A n \in DOMAIN small.ty_env : big.ty_env[n] = small.ty_env[n]
  /\ DOMAIN small.str_env \subseteq DOMAIN big.str_env
  /\ \A n \in DOMAIN small.str_env : EnvExtends(big.str_env[n], small.str_env[n])

CkOk == ckRes.called /\ ckRes.ret = "ok"
CkErr == ckRes.called /\ ckRes.ret /= "ok"

\* C13: ck returns an error whenever a structure, type or value name of want,
\* at the top level or nested in a structure, is not bound in got; and names
\* that got binds beyond those of want never make ck fail: an environment
\* that extends an accepted got is accepted too.
C13_MissingNamesFail ==
  CkOk =>
    /\ NamesCovered(ckGot, ckWant)
    /\ \A big \in CkEnvs :
         EnvExtends(big, ckGot) => Ck(Sub, ckSymTys, big, ckWant).res = "ok"

\* ck has returned an error for a value that is missing inside a structure
C13_Witness ==
  /\ CkErr
  /\ ckRes.ret = "missing a value"
  /\ "S" \in DOMAIN ckWant.str_env
  /\ "S" \in DOMAIN ckGot.str_env
  /\ DOMAIN ckGot.val_env = DOMAIN ckWant.val_env

RECURSIVE Instantiate(_, _, _)
\* ty with the type variable tv replaced by t
Instantiate(ty, tv, t) ==
  CASE ty.tag = "FixedVar" -> IF ty.fv = tv THEN t ELSE ty
    [] ty.tag = "Fn" -> Fn(Instantiate(ty.param, tv, t), Instantiate(ty.res, tv, t))
    [] ty.tag = "Con" ->
         Con([i \in DOMAIN ty.args |-> Instantiate(ty.args[i], tv, t)], ty.sym)
    [] OTHER -> ty

RECURSIVE SubTys(_)
\* the types occurring in ty
SubTys(ty) ==
  {ty} \cup
  CASE ty.tag = "Fn" -> SubTys(ty.param) \cup SubTys(ty.res)
    [] ty.tag = "Con" -> UNION {SubTys(ty.args[i]) : i \in DOMAIN ty.args}
    [] OTHER -> {}

\* some instantiation of the bound variables of got (at most one here) makes
\* the body of got equal to the body of want
Generalizes(got, want) ==
  IF got.ty_vars = {} THEN got.ty = want.ty
  ELSE \E t \in SubTys(want.ty) :
         Instantiate(got.ty, CHOOSE tv \in got.ty_vars : TRUE, t) = want.ty

\* ck was called on two environments that bind just the value x, with
\* identifier statuses that ck_val_info accepts and closed type schemes
\* without meta variables
CkOneValue ==
  /\ ckRes.called
  /\ ckWant \in CkValEnvs
  /\ ckGot \in CkValEnvs
  /\ \/ ckGot.val_env["x"].id_status = ckWant.val_env["x"].id_status
     \/ IsVal(ckWant.val_env["x"].id_status)
  /\ {SchMeta, SchFree}
       \cap {ckGot.val_env["x"].ty_scheme, ckWant.val_env["x"].ty_scheme} = {}

\* C14: for a value of want, ck succeeds if and only if some instantiation of
\* the bound variables of got's type scheme makes its body equal to the body
\* of want's type scheme.
C14_SucceedsIffGeneralizes ==
  CkOneValue =>
    (ckRes.ret = "ok" <=>
       Generalizes(ckGot.val_env["x"].ty_scheme, ckWant.val_env["x"].ty_scheme))

\* ck has rejected val x : 'a -> 'a against the specification val x : int -> int
C14_Witness ==
  /\ CkOneValue
  /\ ckGot.val_env["x"].ty_scheme = SchId
  /\ ckWant.val_env["x"].ty_scheme = SchIntInt
  /\ ckRes.ret = "unify"

\* C15: for a value of want, ck_val_info reports the identifier status error
\* exactly when the status of got differs from the status of want and the
\* status of want is not Val; so want's Val is satisfied by Val, Con and Exn,
\* and want's Con or Exn is never satisfied by got's Val.
C15_IdStatusError ==
  (ckRes.called /\ ckWant \in CkValEnvs /\ ckGot \in CkValEnvs) =>
    LET gs == ckGot.val_env["x"].id_status
        ws == ckWant.val_env["x"].id_status
    IN /\ ckRes.ret = "incompatible id statuses" <=> (gs /= ws /\ ws /= "Val")
       /\ (ws \in {"Con", "Exn"} /\ gs = "Val") => ckRes.ret /= "ok"
       /\ (ws = "Val" /\ gs \in {"Con", "Exn"}
             /\ ckGot.val_env["x"].ty_scheme = ckWant.val_env["x"].ty_scheme
             /\ ckGot.val_env["x"].ty_scheme \in {SchInt, SchIntInt, SchId})
          => ckRes.ret = "ok"

\* ck has rejected a value where the specification asks for a constructor
C15_Witness ==
  /\ ckRes.called
  /\ ckWant \in CkValEnvs
  /\ ckGot \in CkValEnvs
  /\ ckGot.val_env["x"].id_status = "Val"
  /\ ckWant.val_env["x"].id_status = "Con"
  /\ ckGot.val_env["x"].ty_scheme = ckWant.val_env["x"].ty_scheme
  /\ ckRes.ret = "incompatible id statuses"

\* ck was called on two environments that bind just the type t
CkOneType == ckRes.called /\ ckWant \in CkTyEnvs /\ ckGot \in CkTyEnvs

\* the type of want is generative and has constructors
WantHasCons ==
  /\ ckWant.ty_env["t"].tag = "Sym"
  /\ DOMAIN ckSymTys[ckWant.ty_env["t"].sym].val_env /= {}

C17_CkDoesNotMutate ==
  [][CkCall =>
       /\ UNCHANGED <<entries, mv_info, ckSymTys, ckGot, ckWant>>
       /\ ckRes'.ret = Ck(EmptySubst, ckSymTys, ckGot, ckWant).res
       /\ (ckGot \in CkTwoValEnvs /\ ckWant \in CkTwoValEnvs) =>
            (ckRes'.ret = "ok" <=>
               \A n \in {"x", "y"} :
                 CkValInfo(EmptySubst, ckGot.val_env[n], ckWant.val_env[n]).res = "ok")
    ]_vars

\* ck has accepted two values whose types share a meta variable against
\* int -> int and bool -> bool, called with a Subst that solves the meta
\* variable to int
C17_Witness ==
  /\ CkOk
  /\ IsSolved(Sub, 0)
  /\ ckGot.val_env = Map2("x", CoreValInfo(SchMeta, "Val"), "y", CoreValInfo(SchMeta, "Val"))
  /\ ckWant.val_env = Map2("x", CoreValInfo(SchIntInt, "Val"),
                           "y", CoreValInfo(SchBoolBool, "Val"))

RECURSIVE TyHasMeta(_)
\* a meta variable occurs in ty
TyHasMeta(ty) ==
  CASE ty.tag = "MetaVar" -> TRUE
    [] ty.tag = "Fn" -> TyHasMeta(ty.param) \/ TyHasMeta(ty.res)
    [] ty.tag = "Con" -> \E i \in DOMAIN ty.args : TyHasMeta(ty.args[i])
    [] OTHER -> FALSE

RECURSIVE EnvHasMeta(_)
\* a meta variable occurs in the type of a value of env
EnvHasMeta(env) ==
  \/ \E n \in DOMAIN env.val_env : TyHasMeta(env.val_env[n].ty_scheme.ty)
  \/ \E n \in DOMAIN env.str_env : EnvHasMeta(env.str_env[n])

CkKinds == <<"str", "ty", "val">>
CkItems == {<<k, i>> : k \in 1..Len(CkKinds), i \in 1..Len(CkNames)}
ItemBefore(p, q) == p[1] < q[1] \/ (p[1] = q[1] /\ p[2] < q[2])

\* want binds the name of the item in the map of its kind
ItemInWant(want, p) ==
  CkNames[p[2]] \in
    CASE CkKinds[p[1]] = "str" -> DOMAIN want.str_env
      [] CkKinds[p[1]] = "ty" -> DOMAIN want.ty_env
      [] CkKinds[p[1]] = "val" -> DOMAIN want.val_env

\* what the check of one name of want gives when made by itself
ItemRes(sym_tys, got, want, p) ==
  LET n == CkNames[p[2]]
  IN CASE CkKinds[p[1]] = "str" ->
            IF n \notin DOMAIN got.str_env THEN "missing a struct"
            ELSE Ck(EmptySubst, sym_tys, got.str_env[n], want.str_env[n]).res
       [] CkKinds[p[1]] = "ty" ->
            IF n \notin DOMAIN got.ty_env THEN "missing a type"
            ELSE CkTyInfo(EmptySubst, sym_tys, got.ty_env[n], want.ty_env[n]).res
       [] CkKinds[p[1]] = "val" ->
            IF n \notin DOMAIN got.val_env THEN "missing a value"
            ELSE CkValInfo(EmptySubst, got.val_env[n], want.val_env[n]).res

\* the names of want whose check fails
FailingItems(sym_tys, got, want) ==
  {p \in CkItems : ItemInWant(want, p) /\ ItemRes(sym_tys, got, want, p) /= "ok"}

\* the error of the earliest failing name, or ok when there is none
FirstFailure(sym_tys, got, want) ==
  LET bad == FailingItems(sym_tys, got, want)
  IN IF bad = {} THEN "ok"
     ELSE ItemRes(sym_tys, got, want,
                  CHOOSE p \in bad : \A q \in bad \ {p} : ItemBefore(p, q))

-----------------------------------------------------------------------------
(* Bs::append (basis.rs) and Env::extend (statics types.rs). A binding is   *)
(* a name of one of the five environments together with what it is bound to. *)

MaxBinds == 3

ApNames == {"m", "n"}
ApVals == {"p", "q"}
ApSpaces == {"str", "ty", "val", "sig", "fun"}

MapExtendLeft(a, b) ==
  [n \in DOMAIN a \cup DOMAIN b |-> IF n \in DOMAIN a THEN a[n] ELSE b[n]]

\* HashMap::extend: every pair of b is inserted into a
MapExtend(a, b) ==
  [n \in DOMAIN a \cup DOMAIN b |-> IF n \in DOMAIN b THEN b[n] ELSE a[n]]

\* Env::extend
EnvExtend(self, env) ==
  EnvOf(MapExtend(self.str_env, env.str_env),
        MapExtend(self.ty_env, env.ty_env),
        MapExtend(self.val_env, env.val_env))

\* SigEnv::append, FunEnv::append and the maps of Env::append: the pairs of
\* other are moved into self
MapAppend(self, other) == MapExtend(self, other)

\* Env::append of sml-statics
EnvAppend(self, other) == EnvExtend(self, other)

\* Bs::append: the value of self after the call
BsAppend(self, other) ==
  BsOf(EnvAppend(self.env, other.env),
       MapAppend(self.sig_env, other.sig_env),
       MapAppend(self.fun_env, other.fun_env))

\* the environment of a basis that a kind of name lives in
SpaceOf(b, sp) ==
  CASE sp = "str" -> b.env.str_env
    [] sp = "ty" -> b.env.ty_env
    [] sp = "val" -> b.env.val_env
    [] sp = "sig" -> b.sig_env
    [] sp = "fun" -> b.fun_env

\* the basis b with name n of kind sp bound to v
BsInsert(b, sp, n, v) ==
  LET ins(map) == MapExtend(map, Map1(n, v))
  IN CASE sp = "str" -> BsOf(EnvOf(ins(b.env.str_env), b.env.ty_env, b.env.val_env),
                             b.sig_env, b.fun_env)
       [] sp = "ty" -> BsOf(EnvOf(b.env.str_env, ins(b.env.ty_env), b.env.val_env),
                            b.sig_env, b.fun_env)
       [] sp = "val" -> BsOf(EnvOf(b.env.str_env, b.env.ty_env, ins(b.env.val_env)),
                             b.sig_env, b.fun_env)
       [] sp = "sig" -> BsOf(b.env, ins(b.sig_env), b.fun_env)
       [] sp = "fun" -> BsOf(b.env, b.sig_env, ins(b.fun_env))

AppendInit ==
  /\ AppendIdle
  /\ LaterIdle
  /\ OverloadIdle
  /\ EnrichIdle
  /\ entries = NoEntries
  /\ mv_info = NoEntries
  /\ ucount = 0
  /\ ua = TyNone
  /\ ub = TyNone
  /\ ures = "idle"
  /\ mode = "default"
  /\ syms = <<>>
  /\ exns = <<>>
  /\ overloads = NoOverloads
  /\ handles = <<>>
  /\ panicked = "no"
  /\ marks = {}
  /\ mpc = MDone
  /\ exnRets = <<>>
  /\ bs = EmptyBs

\* elaboration binds a name in the basis that will be appended to
BindSelf(sp, n, v) ==
  /\ apCount < MaxBinds
  /\ apSelf' = BsInsert(apSelf, sp, n, v)
  /\ apCount' = apCount + 1
  /\ apBefore' = DefaultBs
  /\ apArg' = DefaultBs
  /\ UNCHANGED apOther
  /\ UNCHANGED notAppendVars

\* elaboration binds a name in the basis that will be appended
BindOther(sp, n, v) ==
  /\ apCount < MaxBinds
  /\ apOther' = BsInsert(apOther, sp, n, v)
  /\ apCount' = apCount + 1
  /\ apBefore' = DefaultBs
  /\ apArg' = DefaultBs
  /\ UNCHANGED apSelf
  /\ UNCHANGED notAppendVars

\* self.append(other): other is moved into the call and emptied
AppendCall ==
  /\ apSelf' = BsAppend(apSelf, apOther)
  /\ apOther' = DefaultBs
  /\ apBefore' = apSelf
  /\ apArg' = apOther
  /\ UNCHANGED apCount
  /\ UNCHANGED notAppendVars

AppendNext ==
  \/ \E sp \in ApSpaces, n \in ApNames, v \in ApVals : BindSelf(sp, n, v)
  \/ \E sp \in ApSpaces, n \in ApNames, v \in ApVals : BindOther(sp, n, v)
  \/ AppendCall

SpecAppend == AppendInit /\ [][AppendNext]_vars

\* C20: after a.append(b), in each of the structure, type, value, signature
\* and functor environments a name is bound in a to what b bound it to if b
\* bound it, and otherwise to what a bound it to before; a name bound in a
\* or in b before the call is bound in a afterwards, and no other name is.
C20_AppendRightBiased ==
  [][AppendCall =>
       \A sp \in ApSpaces :
         /\ DOMAIN SpaceOf(apSelf', sp)
              = DOMAIN SpaceOf(apSelf, sp) \cup DOMAIN SpaceOf(apOther, sp)
         /\ \A n \in DOMAIN SpaceOf(apSelf', sp) :
              SpaceOf(apSelf', sp)[n] =
                IF n \in DOMAIN SpaceOf(apOther, sp)
                THEN SpaceOf(apOther, sp)[n]
                ELSE SpaceOf(apSelf, sp)[n]
    ]_vars

\* an append has replaced the binding of a functor name of self by the
\* different binding of other, and kept a binding that only self had
C20_Witness ==
  /\ apOther = DefaultBs
  /\ apBefore.fun_env = Map1("m", "p")
  /\ apBefore.env.val_env = Map1("n", "p")
  /\ apArg.fun_env = Map1("m", "q")
  /\ apSelf.fun_env = Map1("m", "q")
  /\ apSelf.env.val_env = Map1("n", "p")

-----------------------------------------------------------------------------
(* The components above at rest, for the specifications below.              *)

EarlierIdle ==
  /\ AppendIdle
  /\ OverloadIdle
  /\ EnrichIdle
  /\ entries = NoEntries
  /\ mv_info = NoEntries
  /\ ucount = 0
  /\ ua = TyNone
  /\ ub = TyNone
  /\ ures = "idle"
  /\ mode = "default"
  /\ syms = <<>>
  /\ exns = <<>>
  /\ overloads = NoOverloads
  /\ handles = <<>>
  /\ panicked = "no"
  /\ marks = {}
  /\ mpc = MDone
  /\ exnRets = <<>>
  /\ bs = EmptyBs

NotBsOpIdle == EarlierIdle /\ SrvIdle /\ TsIdle /\ GetIdle /\ ExpIdle
NotSrvIdle == EarlierIdle /\ BsOpIdle /\ TsIdle /\ GetIdle /\ ExpIdle
NotTsIdle == EarlierIdle /\ BsOpIdle /\ SrvIdle /\ GetIdle /\ ExpIdle
NotGetIdle == EarlierIdle /\ BsOpIdle /\ SrvIdle /\ TsIdle /\ ExpIdle
NotExpIdle == EarlierIdle /\ BsOpIdle /\ SrvIdle /\ TsIdle /\ GetIdle

-----------------------------------------------------------------------------
(* Bs::disallow_val (basis.rs). A path is a sequence of names: its prefix   *)
(* names structures, its last name a value.                                 *)

PathPrefix(path) == SubSeq(path, 1, Len(path) - 1)
PathLast(path) == path[Len(path)]

DvErr(kind) == [tag |-> "Err", kind |-> kind]
DvOk == [tag |-> "Ok"]
Undefined(item, name) == [tag |-> "Undefined", item |-> item, name |-> name]
Already(by) == [tag |-> "Already", by |-> by]

RECURSIVE GetMutEnv(_, _)
\* get_mut_env: the environment that the structure names lead to, or the
\* first name that is not a structure of the environment reached so far
GetMutEnv(env, names) ==
  IF names = <<>> THEN [ok |-> TRUE, env |-> env]
  ELSE IF Head(names) \notin DOMAIN env.str_env THEN [ok |-> FALSE, name |-> Head(names)]
  ELSE GetMutEnv(env.str_env[Head(names)], Tail(names))

RECURSIVE SetDisallow(_, _, _, _)
\* the environment with the marker of the value at the end of the path set:
\* val_info.disallow = Some(d) through the &mut that get_mut_env returned
SetDisallow(env, names, last, d) ==
  IF names = <<>>
  THEN [env EXCEPT !.val_env = [@ EXCEPT ![last] = [@ EXCEPT !.disallow = d]]]
  ELSE [env EXCEPT !.str_env =
          [@ EXCEPT ![Head(names)] = SetDisallow(@, Tail(names), last, d)]]

DisallowValAlways(self, val) ==
  LET got == GetMutEnv(self.env, PathPrefix(val))
  IN IF ~got.ok
     THEN [ret |-> DvErr(Undefined("Struct", got.name)), self |-> self]
     ELSE IF PathLast(val) \notin DOMAIN got.env.val_env
     THEN [ret |-> DvErr(Undefined("Val", PathLast(val))), self |-> self]
     ELSE [ret |-> DvOk,
           self |-> [self EXCEPT !.env =
                       SetDisallow(@, PathPrefix(val), PathLast(val), "Directly")]]

\* Bs::disallow_val: what it returns, and self afterwards
DisallowVal(self, val) ==
  LET got == GetMutEnv(self.env, PathPrefix(val))
  IN IF ~got.ok
     THEN [ret |-> DvErr(Undefined("Struct", got.name)), self |-> self]
     ELSE IF PathLast(val) \notin DOMAIN got.env.val_env
     THEN [ret |-> DvErr(Undefined("Val", PathLast(val))), self |-> self]
     ELSE IF got.env.val_env[PathLast(val)].disallow = "None"
     THEN [ret |-> DvOk,
           self |-> [self EXCEPT !.env =
                       SetDisallow(@, PathPrefix(val), PathLast(val), "Directly")]]
     ELSE [ret |-> DvErr(Already(got.env.val_env[PathLast(val)].disallow)),
           self |-> self]

\* a value of type int, with the marker d
DvVal(d) == [ValInfoOf(TySchemeZero(TyINT), "Val", "None") EXCEPT !.disallow = d]

\* the value environments: x unmarked, marked or unbound, y unmarked or unbound
DvValEnvs ==
  {EmptyMap, Map1("y", DvVal("None"))}
  \cup {Map1("x", DvVal(d)) : d \in {"None", "Directly"}}
  \cup {Map2("x", DvVal(d), "y", DvVal("None")) : d \in {"None", "Directly"}}

\* the environments of the structure T inside S
DvInnermost == {ValOnly(ve) : ve \in {EmptyMap, Map1("x", DvVal("None"))}}

\* the environments of the structure S
DvInner ==
  {ValOnly(ve) : ve \in {EmptyMap} \cup {Map1("x", DvVal(d)) : d \in {"None", "Directly"}}}
  \cup {EnvOf(Map1("T", e), EmptyMap, Map1("x", DvVal("None"))) : e \in DvInnermost}

DvBases ==
  {BsOf(ValOnly(ve), EmptyMap, EmptyMap) : ve \in DvValEnvs}
  \cup {BsOf(EnvOf(Map1("S", e), EmptyMap, ve), EmptyMap, EmptyMap) :
          e \in DvInner, ve \in DvValEnvs}

DvPaths ==
  {pre \o <<last>> : pre \in {<<>>, <<"S">>, <<"T">>, <<"S", "T">>, <<"S", "S">>},
                     last \in {"x", "y"}}

DisallowInit ==
  /\ boSelf \in DvBases
  /\ boOther = DefaultBs
  /\ boArgs = <<>>
  /\ boRet = NotCalled
  /\ boBefore = DefaultBs
  /\ NotBsOpIdle

\* self.disallow_val(&val)
DisallowValCall(val) ==
  /\ boSelf' = DisallowVal(boSelf, val).self
  /\ boRet' = Returned(DisallowVal(boSelf, val).ret)
  /\ boArgs' = val
  /\ boBefore' = boSelf
  /\ UNCHANGED boOther
  /\ UNCHANGED notBsOpVars

DisallowNext ==
  \/ \E val \in DvPaths : DisallowValCall(val)

SpecDisallow == DisallowInit /\ [][DisallowNext]_vars

RECURSIVE MarkedPaths(_)
\* the paths of the values of env that carry a marker
MarkedPaths(env) ==
  {<<n>> : n \in {v \in DOMAIN env.val_env : env.val_env[v].disallow /= "None"}}
  \cup UNION {{<<n>> \o p : p \in MarkedPaths(env.str_env[n])} : n \in DOMAIN env.str_env}

RECURSIVE ClearMarkers(_)
\* env with no value marked
ClearMarkers(env) ==
  EnvOf([n \in DOMAIN env.str_env |-> ClearMarkers(env.str_env[n])],
        env.ty_env,
        [n \in DOMAIN env.val_env |-> [env.val_env[n] EXCEPT !.disallow = "None"]])

\* the path leads to a value of env
ValueAt(env, path) ==
  /\ GetMutEnv(env, PathPrefix(path)).ok
  /\ PathLast(path) \in DOMAIN GetMutEnv(env, PathPrefix(path)).env.val_env

\* C21: disallow_val either marks exactly one value or changes nothing. It
\* returns Undefined(Struct, n) when the structure name n of the prefix cannot
\* be resolved, Undefined(Val, last) when the environment reached has no such
\* value and Already when the value carries a marker, and leaves the basis
\* as it was in these three cases; otherwise it sets the marker of that value
\* to Directly and changes nothing else, and a second disallow_val of the
\* same path fails with Already.
C21_DisallowValMarksOne ==
  boRet.called =>
    LET got == GetMutEnv(boBefore.env, PathPrefix(boArgs))
        last == PathLast(boArgs)
    IN IF ~got.ok
       THEN /\ boRet.ret = DvErr(Undefined("Struct", got.name))
            /\ \E i \in 1..(Len(boArgs) - 1) : boArgs[i] = got.name
            /\ boSelf = boBefore
       ELSE IF last \notin DOMAIN got.env.val_env
       THEN /\ boRet.ret = DvErr(Undefined("Val", last))
            /\ boSelf = boBefore
       ELSE IF boArgs \in MarkedPaths(boBefore.env)
       THEN /\ boRet.ret = DvErr(Already(got.env.val_env[last].disallow))
            /\ boSelf = boBefore
       ELSE /\ boRet.ret = DvOk
            /\ MarkedPaths(boSelf.env) = MarkedPaths(boBefore.env) \cup {boArgs}
            /\ GetMutEnv(boSelf.env, PathPrefix(boArgs)).env.val_env[last].disallow
                 = "Directly"
            /\ ClearMarkers(boSelf.env) = ClearMarkers(boBefore.env)
            /\ boSelf.sig_env = boBefore.sig_env
            /\ boSelf.fun_env = boBefore.fun_env
            /\ DisallowVal(boSelf, boArgs).ret = DvErr(Already("Directly"))

\* disallow_val has marked a value two structures deep, next to a value of
\* the same name that was marked before
C21_Witness ==
  /\ boRet.called
  /\ boRet.ret = DvOk
  /\ boArgs = <<"S", "T", "x">>
  /\ <<"x">> \in MarkedPaths(boBefore.env)
  /\ MarkedPaths(boSelf.env) = {<<"x">>, <<"S", "T", "x">>}

-----------------------------------------------------------------------------
(* Bs::add (basis.rs): a structure, signature or functor of another basis   *)
(* is bound in self under a name.                                           *)

\* sml_namespace::Module
Modules == {"str", "sig", "fun"}

AddNoReplace(self, ns, name, other, other_name) ==
  IF other_name \in DOMAIN SpaceOf(other, ns)
  THEN [ret |-> TRUE,
        self |-> IF name \in DOMAIN SpaceOf(self, ns) THEN self
                 ELSE BsInsert(self, ns, name, SpaceOf(other, ns)[other_name])]
  ELSE [ret |-> FALSE, self |-> self]

\* Bs::add: what it returns, and self afterwards
Add(self, ns, name, other, other_name) ==
  IF other_name \in DOMAIN SpaceOf(other, ns)
  THEN [ret |-> TRUE, self |-> BsInsert(self, ns, name, SpaceOf(other, ns)[other_name])]
  ELSE [ret |-> FALSE, self |-> self]

\* the maps of self
AddSelfMaps == {EmptyMap, Map1("m", "p")}

\* the other bases: a namespace binds no name, one name or two
AddOthers ==
  {BsOf(EnvOf(EmptyMap, EmptyMap, EmptyMap), EmptyMap, EmptyMap),
   BsOf(EnvOf(Map1("n", "q"), EmptyMap, EmptyMap), Map2("m", "p", "n", "q"), EmptyMap),
   BsOf(EnvOf(Map2("m", "p", "n", "q"), EmptyMap, EmptyMap), EmptyMap, Map1("m", "q")),
   BsOf(EnvOf(EmptyMap, EmptyMap, EmptyMap), Map1("m", "q"), Map2("m", "p", "n", "q"))}

AddSelves ==
  {BsOf(EnvOf(se, Map1("t", "p"), Map1("x", "p")), ge, fe) :
     se \in AddSelfMaps, ge \in AddSelfMaps, fe \in AddSelfMaps}

AddInit ==
  /\ boSelf \in AddSelves
  /\ boOther \in AddOthers
  /\ boArgs = <<>>
  /\ boRet = NotCalled
  /\ boBefore = DefaultBs
  /\ NotBsOpIdle

\* self.add(ns, name, &other, &other_name)
AddCall(ns, name, other_name) ==
  /\ boSelf' = Add(boSelf, ns, name, boOther, other_name).self
  /\ boRet' = Returned(Add(boSelf, ns, name, boOther, other_name).ret)
  /\ boArgs' = <<ns, name, other_name>>
  /\ boBefore' = boSelf
  /\ UNCHANGED boOther
  /\ UNCHANGED notBsOpVars

AddNext ==
  \/ \E ns \in Modules, name \in ApNames, other_name \in ApNames :
       AddCall(ns, name, other_name)

SpecAdd == AddInit /\ [][AddNext]_vars

\* what holds of the call of add that has just returned
AddPost ==
  LET ns == boArgs[1]
      name == boArgs[2]
      other_name == boArgs[3]
      from == SpaceOf(boOther, ns)
  IN /\ boRet.ret = (other_name \in DOMAIN from)
     /\ ~boRet.ret => boSelf = boBefore
     /\ boRet.ret =>
          /\ DOMAIN SpaceOf(boSelf, ns) = DOMAIN SpaceOf(boBefore, ns) \cup {name}
          /\ SpaceOf(boSelf, ns)[name] = from[other_name]
          /\ \A n \in DOMAIN SpaceOf(boBefore, ns) \ {name} :
               SpaceOf(boSelf, ns)[n] = SpaceOf(boBefore, ns)[n]
          /\ \A sp \in ApSpaces \ {ns} : SpaceOf(boSelf, sp) = SpaceOf(boBefore, sp)

\* C22: add returns true if and only if other binds other_name in the
\* namespace ns; when it returns false self is unchanged; when it returns
\* true the only change to self is that name is bound in the environment of
\* ns to other's binding, replacing a previous binding of name, and the other
\* environments of self are unchanged; other is never modified.
C22_AddCopiesOneBinding ==
  [][AddNext => (AddPost' /\ boOther' = boOther)]_vars

\* add has replaced the signature m of self by the different signature n of other
C22_Witness ==
  /\ boRet.called
  /\ boRet.ret = TRUE
  /\ boArgs = <<"sig", "m", "n">>
  /\ boBefore.sig_env = Map1("m", "p")
  /\ boOther.sig_env = Map2("m", "p", "n", "q")
  /\ boSelf.sig_env = Map1("m", "q")

-----------------------------------------------------------------------------
(* The language server in root mode (lang-srv state.rs, diagnostics.rs) and *)
(* the input it analyses (input lib.rs).                                    *)

MaxRequests == 2

\* source files and group files of the workspace; each is a file with a URL
SrvSources == {"a", "b"}
SrvGroups == {"g", "h"}
Urls == SrvSources \cup SrvGroups

\* helpers::file_url / convert::file_url: "z" is a path without a file URL
FileUrl(path) == IF path \in Urls THEN Some(path) ELSE NoneV

\* lsp_server::Message, as far as the properties look at it
Msg(kind, url, full, id) == [kind |-> kind, url |-> url, full |-> full, id |-> id]
DiagMsg(url, full) == Msg("PublishDiagnostics", url, full, -1)
ResponseMsg(id) == Msg("Response", "", FALSE, id)
RequestMsg(id) == Msg("Request", "", FALSE, id)

\* the parts of State that the handlers below write, as one record
SrvState(hd, rq, out, last) ==
  [has_diagnostics |-> hd, req_queue |-> rq, sent |-> out, lastDiag |-> last]

\* SPState::send
Send(st, msg) == [st EXCEPT !.sent = Append(@, msg)]

\* SPState::send_diagnostics, and what the client was last told for the URL
SendDiagnostics(st, url, full) ==
  [Send(st, DiagMsg(url, full)) EXCEPT !.lastDiag[url] = IF full THEN "full" ELSE "empty"]

\* SPState::send_request: req_queue.outgoing.register, then send
SendRequest(st, data) ==
  Send([st EXCEPT !.req_queue.outgoing = @ \cup {[id |-> st.req_queue.next_id, data |-> data]},
                  !.req_queue.next_id = @ + 1],
       RequestMsg(st.req_queue.next_id))

\* SPState::show_error
ShowError(st, code) == SendRequest(st, Some(code))

SendResponseUnchecked(st, id) == Send(st, ResponseMsg(id))

\* SPState::send_response: req_queue.incoming.complete, and send on Some
SendResponse(st, id) ==
  IF id \in st.req_queue.incoming
  THEN Send([st EXCEPT !.req_queue.incoming = @ \ {id}], ResponseMsg(id))
  ELSE st

\* send_diagnostics(url, ..) for each url of a set
RECURSIVE SendEach(_, _, _)
SendEach(st, urls, full) ==
  IF urls = {} THEN st
  ELSE SendEach(SendDiagnostics(st, CHOOSE u \in urls : TRUE, full),
                urls \ {CHOOSE u \in urls : TRUE}, full)

ClearOldNever(st, old, new) == st

\* the loop over the old has_diagnostics: an empty list for each url that
\* is not in the new set
ClearOld(st, old, new) == SendEach(st, old \ new, FALSE)

\* util::Error of the input crate: where it is, whether that path is a file
InputError(kind, path, is_file) == [kind |-> kind, path |-> path, is_file |-> is_file]

\* one input error: a diagnostic on its file, or show_error
PublishError(st, err) ==
  IF err.is_file /\ FileUrl(err.path).some
  THEN SendDiagnostics([st EXCEPT !.has_diagnostics = @ \cup {FileUrl(err.path).val}],
                       FileUrl(err.path).val, TRUE)
  ELSE ShowError(st, err.kind)

RECURSIVE PublishErrors(_, _)
PublishErrors(st, errors) ==
  IF errors = <<>> THEN st
  ELSE PublishErrors(PublishError(st, Head(errors)), Tail(errors))

\* the urls of the paths for which get_many gave a non-empty list
NewDiagnostics(got) ==
  {FileUrl(path).val : path \in {q \in DOMAIN got : got[q] /\ FileUrl(q).some}}

\* the group files and sources on disk that Input::new reads: the root
\* groups, the groups each group names, the sources each group names
Workspace(roots, deps, srcs) == [roots |-> roots, deps |-> deps, srcs |-> srcs]

RECURSIVE Closure(_, _)
Closure(deps, seen) ==
  IF seen \cup UNION {deps[g] : g \in seen} = seen THEN seen
  ELSE Closure(deps, seen \cup UNION {deps[g] : g \in seen})

\* lower_cm::get / lower_mlb::get from the root groups: every group reached
LowerGet(ws) == Closure(ws.deps, ws.roots)

\* topo::check: Err(witness) when a group depends on itself through the
\* groups of the input
TopoCheck(groups) ==
  IF \E g \in DOMAIN groups : g \in Closure(groups, groups[g])
  THEN [ok |-> FALSE, witness |-> CHOOSE g \in DOMAIN groups : g \in Closure(groups, groups[g])]
  ELSE [ok |-> TRUE]

\* Input::new (input lib.rs): sources and groups of every group reached, the
\* errors met on the way, and one more error when topo::check finds a cycle
InputNew(ws, errs) ==
  [sources |-> UNION {ws.srcs[g] : g \in LowerGet(ws)},
   groups |-> [g \in LowerGet(ws) |-> ws.deps[g]],
   root_group_paths |-> ws.roots,
   errors |-> IF TopoCheck([g \in LowerGet(ws) |-> ws.deps[g]]).ok THEN errs
              ELSE Append(errs, InputError("Cycle",
                     TopoCheck([g \in LowerGet(ws) |-> ws.deps[g]]).witness, TRUE))]

\* whether Input::new found a cycle
HasCycle(input) == \E i \in DOMAIN input.errors : input.errors[i].kind = "Cycle"

\* SPState::try_get_input on Err(err) of Input::new (state.rs): the old
\* diagnostics are cleared, the error is shown, None is returned
TryGetInputErr(st, err) ==
  PublishError(SendEach([st EXCEPT !.has_diagnostics = {}], st.has_diagnostics, FALSE), err)

\* the rest of a publish once the input errors are out: the new lists are
\* sent, the old ones cleared, has_diagnostics replaced
PublishFrom(st, old, new) ==
  [ClearOld(SendEach(st, new, TRUE), old, st.has_diagnostics \cup new)
     EXCEPT !.has_diagnostics = st.has_diagnostics \cup new]

\* State::try_publish_diagnostics (state.rs) when root.input is Some
TryPublishDiagnostics(st, got) ==
  PublishFrom([st EXCEPT !.has_diagnostics = {}], st.has_diagnostics, NewDiagnostics(got))

\* try_publish (diagnostics.rs)
TryPublish(st, input, got) ==
  PublishFrom(PublishErrors([st EXCEPT !.has_diagnostics = {}], input.errors),
              st.has_diagnostics, NewDiagnostics(got))

\* the workspaces read: one group; two groups; two groups naming each other;
\* a group naming itself; a cycle that the root does not reach
Workspaces ==
  {Workspace({"g"}, [g \in SrvGroups |-> {}], [g \in SrvGroups |-> IF g = "g" THEN {"a"} ELSE {"b"}]),
   Workspace({"g"}, [g \in SrvGroups |-> IF g = "g" THEN {"h"} ELSE {}],
             [g \in SrvGroups |-> IF g = "g" THEN {"a"} ELSE {"b"}]),
   Workspace({"g"}, [g \in SrvGroups |-> IF g = "g" THEN {"h"} ELSE {"g"}],
             [g \in SrvGroups |-> IF g = "g" THEN {"a"} ELSE {"b"}]),
   Workspace({"g"}, [g \in SrvGroups |-> IF g = "g" THEN {"g"} ELSE {}],
             [g \in SrvGroups |-> IF g = "g" THEN {"a", "b"} ELSE {}]),
   Workspace({"g"}, [g \in SrvGroups |-> IF g = "g" THEN {} ELSE {"h"}],
             [g \in SrvGroups |-> IF g = "g" THEN {"a"} ELSE {"b"}])}

\* the errors Input::new meets before topo::check: none, one in a source
\* file, one at a path that is not a file
EarlyErrors ==
  {<<>>, <<InputError("Source", "a", TRUE)>>, <<InputError("Root", "z", FALSE)>>}

\* the errors of the Input::new of try_get_input (state.rs)
GetInputErrors ==
  {InputError("Source", "a", TRUE), InputError("Cycle", "g", TRUE), InputError("Root", "z", FALSE)}

\* the call that has just returned
SrvCalled(op, id, analysed, before, ret) ==
  [called |-> TRUE, op |-> op, id |-> id, analysed |-> analysed, before |-> before, ret |-> ret]

\* the state the handlers start from; sent is what this call sends
SrvCur == SrvState(has_diagnostics, req_queue, <<>>, lastDiag)

SrvInstall(st) ==
  /\ st.req_queue.next_id <= MaxRequests
  /\ has_diagnostics' = st.has_diagnostics
  /\ req_queue' = st.req_queue
  /\ sent' = st.sent
  /\ lastDiag' = st.lastDiag

SrvInit ==
  /\ has_diagnostics = {}
  /\ root_input = NoneV
  /\ req_queue = [incoming |-> {}, outgoing |-> {}, next_id |-> 0]
  /\ sent = <<>>
  /\ lastDiag = [u \in Urls |-> "never"]
  /\ srvCall = NotCalled
  /\ NotSrvIdle

\* root.input = Input::new(..)
InputNewCall(ws, errs) ==
  /\ root_input' = Some(InputNew(ws, errs))
  /\ srvCall' = SrvCalled("Input::new", -1, {}, has_diagnostics, TRUE)
  /\ SrvInstall(SrvCur)
  /\ UNCHANGED notSrvVars

\* root.input = self.sp.try_get_input(..) where Input::new gives Ok(input)
TryGetInputOk(ws) ==
  /\ TopoCheck([g \in LowerGet(ws) |-> ws.deps[g]]).ok
  /\ root_input' = Some(InputNew(ws, <<>>))
  /\ srvCall' = SrvCalled("try_get_input", -1, {}, has_diagnostics, TRUE)
  /\ SrvInstall(SrvCur)
  /\ UNCHANGED notSrvVars

\* root.input = self.sp.try_get_input(..) where Input::new gives Err(err)
TryGetInputFail(err) ==
  /\ root_input' = NoneV
  /\ srvCall' = SrvCalled("try_get_input", -1, {}, has_diagnostics, FALSE)
  /\ SrvInstall(TryGetInputErr(SrvCur, err))
  /\ UNCHANGED notSrvVars

\* self.try_publish_diagnostics() (state.rs); got is what get_many gives
TryPublishDiagnosticsCall ==
  \/ /\ ~root_input.some
     /\ srvCall' = SrvCalled("try_publish_diagnostics", -1, {}, has_diagnostics, FALSE)
     /\ SrvInstall(SrvCur)
     /\ UNCHANGED root_input
     /\ UNCHANGED notSrvVars
  \/ /\ root_input.some
     /\ \E got \in [root_input.val.sources -> BOOLEAN] :
          /\ srvCall' = SrvCalled("try_publish_diagnostics", -1, root_input.val.sources,
                                  has_diagnostics, TRUE)
          /\ SrvInstall(TryPublishDiagnostics(SrvCur, got))
     /\ UNCHANGED root_input
     /\ UNCHANGED notSrvVars

\* diagnostics::try_publish(st) (diagnostics.rs), where root.input is an Input
TryPublishCall ==
  /\ root_input.some
  /\ \E got \in [root_input.val.sources -> BOOLEAN] :
       /\ srvCall' = SrvCalled("try_publish", -1, root_input.val.sources, has_diagnostics, TRUE)
       /\ SrvInstall(TryPublish(SrvCur, root_input.val, got))
  /\ UNCHANGED root_input
  /\ UNCHANGED notSrvVars

\* the ids of the requests of the client, and of the responses it sends
RequestIds == {7, 8}
ResponseIds == 0 .. MaxRequests

\* req_queue.incoming.register(id, ())
RegisterIncoming(st, id) == [st EXCEPT !.req_queue.incoming = @ \cup {id}]

\* State::handle_request: the request is registered; handle_request_ then
\* answers it ("ok"), fails before answering ("err"), or knows no such
\* method ("unhandled")
HandleRequest(st, id, outcome) ==
  IF outcome = "ok" THEN SendResponse(RegisterIncoming(st, id), id)
  ELSE RegisterIncoming(st, id)

HandleResponseAlways(st, id, learn) == SendRequest(st, NoneV)

\* State::handle_response: req_queue.outgoing.complete(id); ShowDocument is
\* requested when the completed request carried an error code and the user
\* chose "Learn more"
HandleResponse(st, id, learn) ==
  IF \E e \in st.req_queue.outgoing : e.id = id
  THEN IF learn /\ \E e \in st.req_queue.outgoing : e.id = id /\ e.data.some
       THEN SendRequest([st EXCEPT !.req_queue.outgoing = {e \in @ : e.id /= id}], NoneV)
       ELSE [st EXCEPT !.req_queue.outgoing = {e \in @ : e.id /= id}]
  ELSE st

HandleRequestCall(id, outcome) ==
  /\ srvCall' = SrvCalled("handle_request", id, {}, has_diagnostics, outcome = "ok")
  /\ SrvInstall(HandleRequest(SrvCur, id, outcome))
  /\ UNCHANGED root_input
  /\ UNCHANGED notSrvVars

HandleResponseCall(id, learn) ==
  /\ srvCall' = SrvCalled("handle_response", id, {}, has_diagnostics,
                          \E e \in req_queue.outgoing : e.id = id)
  /\ SrvInstall(HandleResponse(SrvCur, id, learn))
  /\ UNCHANGED root_input
  /\ UNCHANGED notSrvVars

\* self.sp.show_error(message, code)
ShowErrorCall(code) ==
  /\ srvCall' = SrvCalled("show_error", req_queue.next_id, {}, has_diagnostics, TRUE)
  /\ SrvInstall(ShowError(SrvCur, code))
  /\ UNCHANGED root_input
  /\ UNCHANGED notSrvVars

\* getting the input and publishing diagnostics
DiagNext ==
  \/ \E ws \in Workspaces, errs \in EarlyErrors : InputNewCall(ws, errs)
  \/ \E ws \in Workspaces : TryGetInputOk(ws)
  \/ \E err \in GetInputErrors : TryGetInputFail(err)
  \/ TryPublishDiagnosticsCall
  \/ TryPublishCall

SpecDiag == SrvInit /\ [][DiagNext]_vars

\* requests and responses
ReqNext ==
  \/ \E id \in RequestIds, outcome \in {"ok", "err", "unhandled"} : HandleRequestCall(id, outcome)
  \/ \E id \in ResponseIds, learn \in BOOLEAN : HandleResponseCall(id, learn)
  \/ \E code \in {"Cycle", "Root"} : ShowErrorCall(code)

SpecReq == SrvInit /\ [][ReqNext]_vars

\* C23: when the group files reachable from the root form a cycle, no source
\* of that input is handed on for analysis: a publish whose input carries the
\* Cycle error gives get_many no source.
C23_CycleNeverAnalysed ==
  (srvCall.called /\ srvCall.op = "try_publish" /\ HasCycle(root_input.val))
    => srvCall.analysed = {}

\* try_publish has run on the input of two groups that name each other
C23_Witness ==
  /\ srvCall.called
  /\ srvCall.op = "try_publish"
  /\ HasCycle(root_input.val)
  /\ DOMAIN root_input.val.groups = {"g", "h"}
  /\ srvCall.analysed = {"a", "b"}
  /\ lastDiag["g"] = "full" \/ lastDiag["h"] = "full"

\* whether the call that has just returned sent this message
WasSent(msg) == \E i \in DOMAIN sent : sent[i] = msg

\* C28: has_diagnostics is exactly the set of URLs whose last
\* PublishDiagnostics carried a non-empty list, and a publish sends an empty
\* list to every URL that was in has_diagnostics before it and is not after.
C28_HasDiagnosticsMatchesClient ==
  srvCall.called =>
    /\ has_diagnostics = {u \in Urls : lastDiag[u] = "full"}
    /\ (srvCall.op \in {"try_publish_diagnostics", "try_publish"} /\ srvCall.ret) =>
         \A u \in srvCall.before \ has_diagnostics : WasSent(DiagMsg(u, FALSE))

\* a publish has cleared one URL, replaced the list of another and kept the
\* record of both in step
C28_Witness ==
  /\ srvCall.called
  /\ srvCall.op = "try_publish_diagnostics"
  /\ srvCall.ret
  /\ srvCall.before = {"a", "b"}
  /\ has_diagnostics = {"b"}
  /\ lastDiag["a"] = "empty"
  /\ WasSent(DiagMsg("a", FALSE))
  /\ WasSent(DiagMsg("b", TRUE))

\* the program state of the server, without the record of the last call
SrvProgram == <<has_diagnostics, root_input, req_queue, lastDiag>>

\* C29: a Response is sent only by handle_request, only for the id of its
\* request, once, and that id is then no longer registered as incoming; a
\* response received for an id that is not in the outgoing queue sends no
\* message and changes no state.
C29_AnswersOncePerRequest ==
  [][ReqNext =>
       /\ \A i \in DOMAIN sent' : sent'[i].kind = "Response" =>
            /\ srvCall'.op = "handle_request"
            /\ sent'[i].id = srvCall'.id
            /\ sent'[i].id \notin req_queue'.incoming
            /\ \A j \in DOMAIN sent' : sent'[j].kind = "Response" => j = i
       /\ \A id \in ResponseIds, learn \in BOOLEAN :
            (HandleResponseCall(id, learn) /\ ~\E e \in req_queue.outgoing : e.id = id) =>
              (sent' = <<>> /\ UNCHANGED SrvProgram)]_vars

\* a response for an id that was never issued has been received while
\* request 8 is registered and unanswered and one request has been sent
C29_Witness ==
  /\ srvCall.called
  /\ srvCall.op = "handle_response"
  /\ srvCall.id = 2
  /\ ~srvCall.ret
  /\ req_queue.incoming = {8}
  /\ req_queue.next_id = 1
  /\ sent = <<>>

-----------------------------------------------------------------------------
(* Type schemes of type constructors: statics types.rs (TyScheme::zero,     *)
(* TyScheme::one, Syms::default), sml-statics types.rs (TyScheme::n_ary)    *)
(* and the list and ref entries of minimal().                               *)

\* Sym::BOOL .. Sym::ORDER of statics types.rs
StSymBOOL == 0
StSymCHAR == 1
StSymINT == 2
StSymREAL == 3
StSymSTRING == 4
StSymWORD == 5
StSymEXN == 6
StSymREF == 7
StSymLIST == 8
StSymORDER == 9

\* TyScheme of statics types.rs: vars[i] says whether variable i is equality
StTyScheme(ty_vars, ty) == [vars |-> ty_vars, ty |-> ty]

\* TyScheme::mono
StMono(ty) == StTyScheme(<<>>, ty)

\* TyScheme::zero
StZero(s) == StMono(TyZero(s))

\* TyScheme::one
StOne(s) == StTyScheme(<<FALSE>>, Con(<<>>, s))

\* datatype: each constructor gets the scheme of the type, or a function to
\* it from the constructor's argument; ctors maps a name to NoneV or Some(ty)
StDatatype(name, ty_scheme, ctors) ==
  [name |-> name,
   ty_scheme |-> ty_scheme,
   val_env |-> [c \in DOMAIN ctors |->
                  [ty_scheme |-> IF ctors[c].some
                                 THEN StTyScheme(ty_scheme.vars, Fn(ctors[c].val, ty_scheme.ty))
                                 ELSE ty_scheme,
                   id_status |-> "Con"]]]

\* Syms::default: the store, Sym(i) at position i + 1
StSymsDefault ==
  <<StDatatype("bool", StZero(StSymBOOL), Map2("true", NoneV, "false", NoneV)),
    StDatatype("char", StZero(StSymCHAR), EmptyMap),
    StDatatype("int", StZero(StSymINT), EmptyMap),
    StDatatype("real", StZero(StSymREAL), EmptyMap),
    StDatatype("string", StZero(StSymSTRING), EmptyMap),
    StDatatype("word", StZero(StSymWORD), EmptyMap),
    StDatatype("exn", StZero(StSymEXN), EmptyMap),
    StDatatype("ref", StOne(StSymREF), Map1("ref", Some(BoundVar(0)))),
    StDatatype("list", StOne(StSymLIST), Map2("nil", NoneV, "::", Some(BoundVar(0)))),
    StDatatype("order", StZero(StSymORDER),
               [c \in {"LESS", "EQUAL", "GREATER"} |-> NoneV])>>

\* a scheme built for the type constructor sym: who built it, its binder,
\* how many variables that binds, its body
TsBuilt(by, sym, binder, ty) ==
  [called |-> TRUE, by |-> by, sym |-> sym, binder |-> binder, arity |-> Len(binder), ty |-> ty]

\* the kinds n_ary is given: up to three variables, regular or equality
NAryKinds == UNION {[1..n -> {KRegular, KEquality}] : n \in 0..3}

TyConInit ==
  /\ tsBuilt = NotCalled
  /\ mvGen = 0
  /\ mvMinted = {}
  /\ mvRet = NotCalled
  /\ pgRet = NotCalled
  /\ NotTsIdle

\* TyScheme::zero(s) of statics
StZeroCall(s) ==
  /\ tsBuilt' = TsBuilt("TyScheme::zero", s, StZero(s).vars, StZero(s).ty)
  /\ UNCHANGED <<mvGen, mvMinted, mvRet, pgRet>>
  /\ UNCHANGED notTsVars

\* TyScheme::one(s) of statics
StOneCall(s) ==
  /\ tsBuilt' = TsBuilt("TyScheme::one", s, StOne(s).vars, StOne(s).ty)
  /\ UNCHANGED <<mvGen, mvMinted, mvRet, pgRet>>
  /\ UNCHANGED notTsVars

\* the ty_scheme of an entry of Syms::default()
StStoreEntry(i) ==
  /\ tsBuilt' = TsBuilt("Syms::default", i - 1, StSymsDefault[i].ty_scheme.vars,
                        StSymsDefault[i].ty_scheme.ty)
  /\ UNCHANGED <<mvGen, mvMinted, mvRet, pgRet>>
  /\ UNCHANGED notTsVars

\* TyScheme::n_ary(kinds, sym) of sml-statics
NAryCall(kinds, sym) ==
  /\ tsBuilt' = TsBuilt("TyScheme::n_ary", sym, TySchemeNAry(kinds, sym).bound_vars,
                        TySchemeNAry(kinds, sym).ty)
  /\ UNCHANGED <<mvGen, mvMinted, mvRet, pgRet>>
  /\ UNCHANGED notTsVars

\* the ty_scheme of list_info and ref_info of minimal()
MinimalEntry(sym) ==
  /\ tsBuilt' = TsBuilt("minimal", sym, MinimalInfo(sym).ty_scheme.bound_vars,
                        MinimalInfo(sym).ty_scheme.ty)
  /\ UNCHANGED <<mvGen, mvMinted, mvRet, pgRet>>
  /\ UNCHANGED notTsVars

TyConNext ==
  \/ \E s \in StSymBOOL .. StSymORDER : StZeroCall(s)
  \/ \E s \in StSymBOOL .. StSymORDER : StOneCall(s)
  \/ \E i \in DOMAIN StSymsDefault : StStoreEntry(i)
  \/ \E kinds \in NAryKinds, sym \in SymEXN .. SymREF : NAryCall(kinds, sym)
  \/ \E sym \in {SymLIST, SymREF} : MinimalEntry(sym)

SpecTyCon == TyConInit /\ [][TyConNext]_vars

\* C24: a scheme built for a type constructor that binds n variables for
\* Sym s has the body Con(args, s) with exactly n arguments.
C24_ConArityByConstruction ==
  tsBuilt.called =>
    /\ tsBuilt.ty.tag = "Con"
    /\ tsBuilt.ty.sym = tsBuilt.sym
    /\ Len(tsBuilt.ty.args) = tsBuilt.arity

\* TyScheme::one(Sym::REF) of statics binds one variable over ref without
\* arguments
C24_Witness ==
  /\ tsBuilt.called
  /\ tsBuilt.by = "TyScheme::one"
  /\ tsBuilt.sym = StSymREF
  /\ tsBuilt.arity = 1
  /\ tsBuilt.ty = Con(<<>>, StSymREF)

-----------------------------------------------------------------------------
(* Meta variables: MetaTyVarGen and prepare_generalize (statics types.rs).  *)

MaxGen == 4

\* MetaTyVar
MetaTyVar(id, equality) == [id |-> id, equality |-> equality]

\* UniqGen::gen: the Uniq yielded and the generator afterwards
UniqGenGen(g) == [gen |-> g + 1, ret |-> g]

GenRegularOnly(g, equality) ==
  [gen |-> UniqGenGen(g).gen, ret |-> MetaTyVar(UniqGenGen(g).ret, FALSE)]

\* MetaTyVarGen::gen
Gen(g, equality) ==
  [gen |-> UniqGenGen(g).gen, ret |-> MetaTyVar(UniqGenGen(g).ret, equality)]

\* MetaTyVarGen::gen_from_ty_vars, the iterator run to its end
RECURSIVE GenFromTyVars(_, _)
GenFromTyVars(g, ty_vars) ==
  IF ty_vars = <<>> THEN [gen |-> g, ret |-> <<>>]
  ELSE [gen |-> GenFromTyVars(Gen(g, Head(ty_vars)).gen, Tail(ty_vars)).gen,
        ret |-> <<Gen(g, Head(ty_vars)).ret>>
                  \o GenFromTyVars(Gen(g, Head(ty_vars)).gen, Tail(ty_vars)).ret]

\* the derived Ord of MetaTyVar: by id, then by equality
MvLess(a, b) == a.id < b.id \/ (a.id = b.id /\ ~a.equality /\ b.equality)

\* BTreeSet<MetaTyVar>::iter: the elements in ascending order
RECURSIVE SortMvs(_)
SortMvs(set) ==
  IF set = {} THEN <<>>
  ELSE <<CHOOSE m \in set : \A o \in set \ {m} : MvLess(m, o)>>
         \o SortMvs(set \ {CHOOSE m \in set : \A o \in set \ {m} : MvLess(m, o)})

PrepareGeneralizeFromOne(set) ==
  [ty_vars |-> [i \in 1..Len(SortMvs(set)) |-> SortMvs(set)[i].equality],
   subst |-> [mv \in set |-> BoundVar(CHOOSE i \in 1..Len(SortMvs(set)) : SortMvs(set)[i] = mv)]]

\* prepare_generalize: the binder and the Subst from each meta variable to
\* the BoundVar of its position in the set
PrepareGeneralize(set) ==
  [ty_vars |-> [i \in 1..Len(SortMvs(set)) |-> SortMvs(set)[i].equality],
   subst |-> [mv \in set |->
                BoundVar((CHOOSE i \in 1..Len(SortMvs(set)) : SortMvs(set)[i] = mv) - 1)]]

\* the binders gen_from_ty_vars is given: TyVars of up to three variables
GenTyVars == UNION {[1..n -> BOOLEAN] : n \in 0..3}

\* what the last call of the generator was given and yielded
GenCalled(op, ty_vars, ret, before) ==
  [called |-> TRUE, op |-> op, ty_vars |-> ty_vars, ret |-> ret, before |-> before]

GenInit ==
  /\ tsBuilt = NotCalled
  /\ mvGen = 0
  /\ mvMinted = {}
  /\ mvRet = NotCalled
  /\ pgRet = NotCalled
  /\ NotTsIdle

\* self.gen(equality)
GenCall(equality) ==
  /\ mvGen < MaxGen
  /\ mvGen' = Gen(mvGen, equality).gen
  /\ mvRet' = GenCalled("gen", <<equality>>, <<Gen(mvGen, equality).ret>>, mvMinted)
  /\ mvMinted' = mvMinted \cup {Gen(mvGen, equality).ret}
  /\ UNCHANGED <<tsBuilt, pgRet>>
  /\ UNCHANGED notTsVars

\* self.gen_from_ty_vars(ty_vars), collected
GenFromTyVarsCall(ty_vars) ==
  /\ mvGen + Len(ty_vars) <= MaxGen
  /\ mvGen' = GenFromTyVars(mvGen, ty_vars).gen
  /\ mvRet' = GenCalled("gen_from_ty_vars", ty_vars, GenFromTyVars(mvGen, ty_vars).ret, mvMinted)
  /\ mvMinted' = mvMinted \cup {GenFromTyVars(mvGen, ty_vars).ret[i] : i \in DOMAIN ty_vars}
  /\ UNCHANGED <<tsBuilt, pgRet>>
  /\ UNCHANGED notTsVars

\* prepare_generalize(set) for a set of meta variables minted so far
PrepareGeneralizeCall(set) ==
  /\ pgRet' = [called |-> TRUE, set |-> set, ret |-> PrepareGeneralize(set)]
  /\ UNCHANGED <<tsBuilt, mvGen, mvMinted, mvRet>>
  /\ UNCHANGED notTsVars

GenNext ==
  \/ \E equality \in BOOLEAN : GenCall(equality)
  \/ \E ty_vars \in GenTyVars : GenFromTyVarsCall(ty_vars)
  \/ \E set \in SUBSET mvMinted : PrepareGeneralizeCall(set)

SpecGen == GenInit /\ [][GenNext]_vars

\* the indices of the BoundVars of a type
RECURSIVE BoundVarsIn(_)
BoundVarsIn(ty) ==
  CASE ty.tag = "BoundVar" -> {ty.n}
    [] ty.tag = "Con" -> UNION {BoundVarsIn(ty.args[i]) : i \in DOMAIN ty.args}
    [] ty.tag = "Fn" -> BoundVarsIn(ty.param) \cup BoundVarsIn(ty.res)
    [] ty.tag = "Record" -> UNION {BoundVarsIn(ty.rows[l]) : l \in DOMAIN ty.rows}
    [] OTHER -> {}

\* every BoundVar(n) of the scheme has n < arity
BoundBelowArity(scheme) == \A n \in BoundVarsIn(scheme.ty) : n < Len(scheme.vars)

\* C25: prepare_generalize yields a binder as long as the set is large and
\* maps the meta variables one-to-one onto BoundVar 0 .. size - 1, slot i of
\* the binder carrying the equality flag of the meta variable mapped to i;
\* and every BoundVar(n) of a scheme of the built-in store has n below the
\* scheme's arity.
C25_BoundVarsBelowArity ==
  /\ pgRet.called =>
       /\ Len(pgRet.ret.ty_vars) = Cardinality(pgRet.set)
       /\ DOMAIN pgRet.ret.subst = pgRet.set
       /\ {pgRet.ret.subst[mv] : mv \in pgRet.set}
            = {BoundVar(n) : n \in 0 .. Cardinality(pgRet.set) - 1}
       /\ \A mv \in pgRet.set :
            /\ pgRet.ret.subst[mv].n + 1 \in DOMAIN pgRet.ret.ty_vars
            /\ pgRet.ret.ty_vars[pgRet.ret.subst[mv].n + 1] = mv.equality
  /\ \A i \in DOMAIN StSymsDefault :
       /\ BoundBelowArity(StSymsDefault[i].ty_scheme)
       /\ \A c \in DOMAIN StSymsDefault[i].val_env :
            BoundBelowArity(StSymsDefault[i].val_env[c].ty_scheme)

\* three meta variables, the middle one an equality variable, were
\* generalized
C25_Witness ==
  /\ pgRet.called
  /\ pgRet.set = {MetaTyVar(0, FALSE), MetaTyVar(2, TRUE), MetaTyVar(3, FALSE)}
  /\ pgRet.ret.ty_vars = <<FALSE, TRUE, FALSE>>
  /\ pgRet.ret.subst[MetaTyVar(3, FALSE)] = BoundVar(2)

\* C26: gen_from_ty_vars yields one meta variable per slot of the binder,
\* the i-th with the equality flag of slot i, pairwise distinct and distinct
\* from every meta variable the generator yielded before.
C26_FreshPerSlot ==
  mvRet.called =>
    /\ Len(mvRet.ret) = Len(mvRet.ty_vars)
    /\ \A i \in DOMAIN mvRet.ret : mvRet.ret[i].equality = mvRet.ty_vars[i]
    /\ \A i, j \in DOMAIN mvRet.ret : i /= j => mvRet.ret[i] /= mvRet.ret[j]
    /\ \A i \in DOMAIN mvRet.ret : mvRet.ret[i] \notin mvRet.before

\* after a gen, gen_from_ty_vars instantiated a binder of an equality and a
\* regular variable
C26_Witness ==
  /\ mvRet.called
  /\ mvRet.op = "gen_from_ty_vars"
  /\ mvRet.ty_vars = <<TRUE, FALSE>>
  /\ mvRet.before = {MetaTyVar(0, TRUE)}
  /\ mvRet.ret = <<MetaTyVar(1, TRUE), MetaTyVar(2, FALSE)>>

-----------------------------------------------------------------------------
(* Syms::get (sml-statics types.rs) on the stores that start and finish     *)
(* build, from the empty Default store and from the store of minimal().     *)

\* the Sym values get is given: every Sym of the store, Sym::EXN, and two
\* that a longer store would have issued
GetSyms == 0 .. BaseLen + MaxStarts + 2

SymsGetInit == SymsInit

\* self.get(sym)
GetCall(sym) ==
  /\ getRet' = [called |-> TRUE, sym |-> sym, store |-> syms, ret |-> SymsGet(syms, sym)]
  /\ UNCHANGED notGetVars

SymsGetNext ==
  \/ \E path \in Paths : Start(path)
  \/ \E h \in HandleIds : \E a \in FinishArgs(handles[h].sym) :
       Finish(h, a.ty_info, a.equality)
  \/ \E sym \in GetSyms : GetCall(sym)

SpecSymsGet == SymsGetInit /\ [][SymsGetNext]_vars

-----------------------------------------------------------------------------
(* Expectation comments of the test infrastructure: get_one                 *)
(* (tests check/expect.rs). A line is the sequence of its characters.       *)

MaxLineN == 2

\* COMMENT_START, and the comment end
COMMENT_START == <<"(", "*", "*">>
CommentEnd == <<"*", ")">>

\* str::find of a pattern: the least position it starts at, 0 if none
FindSub(str, pat) ==
  IF \E i \in 1 .. Len(str) - Len(pat) + 1 : SubSeq(str, i, i + Len(pat) - 1) = pat
  THEN CHOOSE i \in 1 .. Len(str) - Len(pat) + 1 :
         /\ SubSeq(str, i, i + Len(pat) - 1) = pat
         /\ \A j \in 1 .. i - 1 : SubSeq(str, j, j + Len(pat) - 1) /= pat
  ELSE 0

\* str::split_once
SplitOnce(str, pat) ==
  IF FindSub(str, pat) = 0 THEN NoneV
  ELSE Some(<<SubSeq(str, 1, FindSub(str, pat) - 1),
              SubSeq(str, FindSub(str, pat) + Len(pat), Len(str))>>)

\* inner.find(|c| c != ' '): the least position of a non-space, 0 if none
FindNonSpace(str) ==
  IF \E i \in DOMAIN str : str[i] /= " "
  THEN CHOOSE i \in DOMAIN str : str[i] /= " " /\ \A j \in 1 .. i - 1 : str[j] = " "
  ELSE 0

\* str::trim_end_matches(' ')
RECURSIVE TrimEnd(_)
TrimEnd(str) ==
  IF str /= <<>> /\ str[Len(str)] = " " THEN TrimEnd(SubSeq(str, 1, Len(str) - 1)) ELSE str

\* the prefixes Expect::new knows
ContainsPrefix == <<"c", "o", "n", "t", "a", "i", "n", "s", ":", " ">>
HoverPrefix == <<"h", "o", "v", "e", "r", ":", " ">>

\* str::strip_prefix
StripPrefix(str, prefix) ==
  IF Len(str) >= Len(prefix) /\ SubSeq(str, 1, Len(prefix)) = prefix
  THEN Some(SubSeq(str, Len(prefix) + 1, Len(str)))
  ELSE NoneV

\* Expect::new
ExpectNew(msg) ==
  IF StripPrefix(msg, ContainsPrefix).some
  THEN [msg |-> StripPrefix(msg, ContainsPrefix).val, kind |-> "ErrorContains"]
  ELSE IF StripPrefix(msg, HoverPrefix).some
  THEN [msg |-> StripPrefix(msg, HoverPrefix).val, kind |-> "Hover"]
  ELSE [msg |-> msg, kind |-> "ErrorExact"]

\* Region
RegionExact(line, col_start, col_end) ==
  [tag |-> "Exact", line |-> line, col_start |-> col_start, col_end |-> col_end]
RegionLine(line) == [tag |-> "Line", line |-> line, col_start |-> 0, col_end |-> 0]

\* how a call of get_one ends
GoNone == [tag |-> "None"]
GoSome(region, expect) == [tag |-> "Some", region |-> region, expect |-> expect]
GoPanic(why) == [tag |-> "panic", why |-> why]

\* a usize: a number, or usize::MAX after a wrap; a subtraction that
\* overflowed where the build checks for it
Usize(n) == [tag |-> "num", n |-> n]
UsizeMax == [tag |-> "usize::MAX", n |-> -1]
Overflowed == [tag |-> "overflow", n |-> -1]

\* line_n - 1 on usize: at 0 the subtraction overflows, which panics in a
\* build with overflow checks and wraps to usize::MAX in one without
SubOne(line_n, checks) ==
  IF line_n > 0 THEN Usize(line_n - 1)
  ELSE IF checks THEN Overflowed ELSE UsizeMax

\* lines 60-68: u32::try_from(line).ok()?, the region, the expectation;
\* usize::MAX does not fit a u32 where usize has 64 bits
GetOneRegion(line, exact, before, non_space_idx, col_range, msg) ==
  CASE line.tag = "overflow" -> GoPanic("attempt to subtract with overflow")
    [] line.tag = "usize::MAX" -> GoNone
    [] OTHER ->
         GoSome(IF exact
                THEN RegionExact(line.n,
                                 Len(before) + Len(COMMENT_START) + non_space_idx,
                                 Len(before) + Len(COMMENT_START) + non_space_idx + Len(col_range))
                ELSE RegionLine(line.n),
                ExpectNew(msg))

\* lines 54-59: the match on the first character of col_range
GetOneArrow(line_n, checks, before, non_space_idx, col_range, msg) ==
  IF col_range = <<>> THEN GoNone
  ELSE CASE Head(col_range) = "^" ->
              GetOneRegion(SubOne(line_n, checks), TRUE, before, non_space_idx, col_range, msg)
         [] Head(col_range) = "+" ->
              GetOneRegion(SubOne(line_n, checks), FALSE, before, non_space_idx, col_range, msg)
         [] Head(col_range) = "v" ->
              GetOneRegion(Usize(line_n + 1), TRUE, before, non_space_idx, col_range, msg)
         [] OTHER -> GoPanic("invalid arrow")

\* lines 51-53: inner from its first non-space, split at the first space
GetOneInner(line_n, checks, before, non_space_idx, inner) ==
  IF ~SplitOnce(inner, <<" ">>).some THEN GoNone
  ELSE GetOneArrow(line_n, checks, before, non_space_idx,
                   SplitOnce(inner, <<" ">>).val[1], TrimEnd(SplitOnce(inner, <<" ">>).val[2]))

\* lines 49-50: the comment end, the first non-space
GetOneComment(line_n, checks, before, rest) ==
  IF ~SplitOnce(rest, CommentEnd).some THEN GoNone
  ELSE IF FindNonSpace(SplitOnce(rest, CommentEnd).val[1]) = 0 THEN GoNone
  ELSE GetOneInner(line_n, checks, before,
                   FindNonSpace(SplitOnce(rest, CommentEnd).val[1]) - 1,
                   SubSeq(SplitOnce(rest, CommentEnd).val[1],
                          FindNonSpace(SplitOnce(rest, CommentEnd).val[1]),
                          Len(SplitOnce(rest, CommentEnd).val[1])))

\* get_one
GetOne(line_n, line_s, checks) ==
  IF ~SplitOnce(line_s, COMMENT_START).some THEN GoNone
  ELSE GetOneComment(line_n, checks, SplitOnce(line_s, COMMENT_START).val[1],
                     SplitOnce(line_s, COMMENT_START).val[2])

\* n spaces
Spaces(n) == [i \in 1..n |-> " "]

\* a line with an expectation comment, from its parts
ExpectLine(before, sp, col_range, msg, tsp, after) ==
  before \o COMMENT_START \o Spaces(sp) \o col_range \o <<" ">> \o msg
         \o Spaces(tsp) \o CommentEnd \o after

\* the lines get_one is given: comments with every arrow, with another
\* first character, with and without text around them; and lines without a
\* comment start, without a comment end, with a blank comment, without a
\* space after the arrows, with an empty comment
ExpectLines ==
  {ExpectLine(before, sp, col_range, msg, tsp, after) :
     before \in {<<>>, <<"x", " ">>}, sp \in 0..2,
     col_range \in {<<"^">>, <<"^", "^", "^">>, <<"v", "v">>, <<"+">>, <<"x">>},
     msg \in {<<"m">>, HoverPrefix \o <<"m">>, <<"m", " ", "m">>},
     tsp \in 0..1, after \in {<<>>, <<"x">>}}
  \cup {<<"x">>,
        COMMENT_START \o <<" ", "^", " ", "m">>,
        COMMENT_START \o Spaces(2) \o CommentEnd,
        COMMENT_START \o <<" ", "^", "^">> \o CommentEnd,
        COMMENT_START \o CommentEnd}

ExpectInit ==
  /\ goLineN \in 0 .. MaxLineN
  /\ goLineS \in ExpectLines
  /\ goChecks \in BOOLEAN
  /\ goRet = NotCalled
  /\ NotExpIdle

\* get_one(line_n, line_s)
GetOneCall ==
  /\ ~goRet.called
  /\ goRet' = Returned(GetOne(goLineN, goLineS, goChecks))
  /\ UNCHANGED <<goLineN, goLineS, goChecks>>
  /\ UNCHANGED notExpVars

ExpectNext ==
  \/ GetOneCall

SpecExpect == ExpectInit /\ [][ExpectNext]_vars

\* the documented format: where the comment starts, where its arrow
\* character is, where the run of non-spaces that starts there ends, and
\* where the comment ends after one space and a message
DocParts(str) ==
  {p \in (1..Len(str)) \X (1..Len(str)) \X (1..Len(str)) \X (1..Len(str)) :
     /\ p[1] + 2 <= Len(str)
     /\ SubSeq(str, p[1], p[1] + 2) = COMMENT_START
     /\ p[2] >= p[1] + 3
     /\ \A q \in p[1] + 3 .. p[2] - 1 : str[q] = " "
     /\ str[p[2]] \in {"^", "v"}
     /\ p[3] >= p[2]
     /\ \A q \in p[2] .. p[3] : str[q] /= " "
     /\ p[3] + 1 <= Len(str)
     /\ str[p[3] + 1] = " "
     /\ p[4] >= p[3] + 3
     /\ p[4] + 1 <= Len(str)
     /\ SubSeq(str, p[4], p[4] + 1) = CommentEnd}

\* C30: get_one returns Some((region, expectation)) for a line in the
\* documented format and None for every other line, whatever line_n is; the
\* region of '^' is on line line_n - 1, that of 'v' on line_n + 1, its
\* columns start at the arrow's offset and span the run of arrows; no input
\* makes get_one fail instead of returning None.
C30_GetOneNeverFails ==
  goRet.called =>
    /\ goRet.ret.tag /= "panic"
    /\ goRet.ret.tag = "Some" <=> DocParts(goLineS) /= {}
    /\ goRet.ret.tag = "Some" =>
         \E p \in DocParts(goLineS) :
           /\ goRet.ret.region.line = IF goLineS[p[2]] = "^" THEN goLineN - 1 ELSE goLineN + 1
           /\ goRet.ret.region.col_start = p[2] - 1
           /\ goRet.ret.region.col_end = p[3]

\* get_one was given a comment with '^' on line 0 in a build that checks
\* overflow, and panicked
C30_Witness ==
  /\ goRet.called
  /\ goLineN = 0
  /\ goChecks
  /\ goLineS = ExpectLine(<<>>, 1, <<"^">>, <<"m">>, 1, <<>>)
  /\ goRet.ret = GoPanic("attempt to subtract with overflow")

====
